---- MODULE Spec2Model ----
(***************************************************************************)
(* Music charts tracking API: the chart store and its role-gated REST      *)
(* endpoints (routers/charts.py, routers/data_sync.py over                 *)
(* services/chart_service.py), and the credential store with its token     *)
(* flows (services/auth_service.py, models/user.py).                       *)
(*                                                                         *)
(* Documents are modelled as the code holds them: dictionaries (functions  *)
(* from field names to values).  A calendar date is a day number; its ISO  *)
(* text is a sequence compared lexicographically, as the store compares    *)
(* the strings the service writes.                                         *)
(***************************************************************************)
EXTENDS Integers, Sequences, FiniteSets, TLC

VARIABLES
    store,      \* the chart_entries collection: a set of documents
    nextId,     \* the next ObjectId the store hands out
    now,        \* the wall clock (datetime.utcnow / date.today)
    last,       \* the last chart/sync request and its response
    users,      \* the users table
    nextUserId, \* the next primary key of the users table
    reg,        \* register_user calls in flight, one slot per worker
    issued,     \* token pairs handed out by create_tokens
    authLast,   \* the last auth request and its response
    conn,       \* the WebSocket connections and their handlers
    active_connections, \* manager.active_connections
    bcast,      \* a call of manager.broadcast: its loop and the sends it tried
    mongo       \* database/mongodb.py: _client, _db and the clients made

vars == <<store, nextId, now, last, users, nextUserId, reg, issued, authLast,
          conn, active_connections, bcast, mongo>>
wsVars == <<conn, active_connections, bcast>>
chartVars == <<store, nextId, last, wsVars, mongo>>
authVars == <<users, nextUserId, reg, issued, authLast, wsVars, mongo>>

---------------------------------------------------------------------------
(* Bounds of the model *)

MaxBatchLen == 2    \* entries per submitted batch
MaxId == 2          \* documents the store ever creates
MaxFeed == 2        \* items in the feed's response
MaxDaysBack == 1    \* days_back of a back-fill
MaxIssued == 2      \* token pairs handed out
MaxLater == 1       \* steps of the clock between chart requests
MaxClients == 3     \* MongoClient objects ever created
MaxTexts == 2       \* texts a WebSocket client sends
MaxTrendDocs == 5   \* documents of a store given to the trend analysis

(* Program constants *)

BatchLimit == 1000

\* date.today(), as a day number; the days and ranks requests speak of.
Today == 2
Dates == 1..Today
Ranks == {1, 2}
Countries == {"Global", "US"}
Roles == {"admin", "editor", "viewer"}

APPLE_MUSIC == "Apple Music"

\* Artist names as character sequences (the artist filter is a
\* case-insensitive pattern search).
Artists == {<<"A", "b">>, <<"b">>}

---------------------------------------------------------------------------
(* Dictionaries *)

EmptyDict == [k \in {} |-> 0]

\* dict.update(other): keys of `other` are added, and overwrite.
DictUpdate(d, other) ==
    [k \in (DOMAIN d) \cup (DOMAIN other) |->
        IF k \in DOMAIN other THEN other[k] ELSE d[k]]

\* Python truthiness of a platform_data value: None and {} are falsy.
Truthy(pd) == ~pd.isDict \/ DOMAIN pd.items # {}

\* date.isoformat(): the text of a date.  date.fromisoformat() reads it back.
IsoFormat(d) == <<d>>
FromIsoFormat(s) == s[1]

\* Lexicographic order on texts, as the store orders strings.
RECURSIVE TextLeq(_, _)
TextLeq(s, t) ==
    IF s = <<>> THEN TRUE
    ELSE IF t = <<>> THEN FALSE
    ELSE IF Head(s) # Head(t) THEN Head(s) < Head(t)
    ELSE TextLeq(Tail(s), Tail(t))

---------------------------------------------------------------------------
(* Request bodies of POST /charts and POST /charts/batch *)

NoPlatformData == [isDict |-> TRUE, items |-> EmptyDict]

SongOf(artist) == IF artist = <<"b">> THEN "song-b" ELSE "song-Ab"
ArtistOf(country) == IF country = "US" THEN <<"b">> ELSE <<"A", "b">>

\* A JSON object that ChartEntryCreate accepts.
EntryBody(d, r, c, pd) ==
    [wellformed |-> TRUE, date |-> d, rank |-> r, song |-> SongOf(ArtistOf(c)),
     artist |-> ArtistOf(c), source |-> APPLE_MUSIC, country |-> c,
     platform_data |-> pd]

\* An entry with extension fields, one whose platform_data is not an object
\* (a JSON string), and one the schema rejects (rank is not an integer).
ExtendedBody ==
    EntryBody(Today, 1, "US", [isDict |-> TRUE, items |-> [itunes_id |-> "x"]])
BadPlatformDataBody ==
    EntryBody(1, 1, "US", [isDict |-> FALSE, items |-> EmptyDict])
MalformedBody == [EntryBody(1, 1, "US", NoPlatformData) EXCEPT !.wellformed = FALSE]

\* The entries requests carry: a first one, three that differ from it in one
\* component of the identity tuple, one of a later day and lower place, and
\* the three above.
PlainBodies ==
    {EntryBody(1, 1, "US", NoPlatformData), EntryBody(Today, 1, "US", NoPlatformData),
     EntryBody(1, 2, "US", NoPlatformData), EntryBody(1, 1, "Global", NoPlatformData),
     EntryBody(Today, 2, "US", NoPlatformData)}
EntryPool == PlainBodies \cup {ExtendedBody, BadPlatformDataBody, MalformedBody}

\* The batches of the checks: every sequence over the plain entries of day 1
\* or rank 1 and the entry that fails conversion.
BatchPool ==
    {e \in PlainBodies : e.date = 1 \/ e.rank = 1} \cup {BadPlatformDataBody}
Batches == UNION {[1..n -> BatchPool] : n \in 0..MaxBatchLen}

\* The batches requests carry.
SentPool ==
    {e \in PlainBodies : e.date = 1 /\ e.rank = 1} \cup {BadPlatformDataBody}
SentBatches ==
    UNION {[1..n -> SentPool] : n \in 0..MaxBatchLen}
        \cup {<<MalformedBody>>, <<EntryBody(1, 1, "US", NoPlatformData), MalformedBody>>}

---------------------------------------------------------------------------
(* ChartService *)

\* hasattr(entry, 'platform_data') and entry.platform_data: the routers attach
\* the attribute only when the body's platform_data is truthy.
HasPlatformData(entry) == Truthy(entry.platform_data)

\* entry.model_dump()
ModelDump(entry) ==
    [date |-> entry.date, rank |-> entry.rank, song |-> entry.song,
     artist |-> entry.artist, source |-> entry.source, country |-> entry.country]

\* entry_dict.update(entry.platform_data) raises unless it is a mapping.
ConversionFails(entry) == HasPlatformData(entry) /\ ~entry.platform_data.isDict

\* The document create_entry / create_batch build for an entry at time t.
EntryDict(entry, t) ==
    LET dumped == ModelDump(entry)
        dated == [dumped EXCEPT !.date = IsoFormat(@)]
        stamped == DictUpdate(dated, [created_at |-> t, updated_at |-> t])
    IN  IF HasPlatformData(entry)
        THEN DictUpdate(stamped, entry.platform_data.items)
        ELSE stamped

\* The identity tuple of a document.
Identity(doc) == <<doc.date, doc.rank, doc.source, doc.country>>

\* A lookup that leaves country out of the filter.
FindDuplicate_IgnoringCountry(coll, entry_dict) ==
    \E doc \in coll :
        <<doc.date, doc.rank, doc.source>>
            = <<entry_dict.date, entry_dict.rank, entry_dict.source>>

\* collection.find_one({date, rank, source, country}) finds a document.
FindDuplicate(coll, entry_dict) ==
    \E doc \in coll : Identity(doc) = Identity(entry_dict)

WithId(doc, id) == DictUpdate(doc, [_id |-> id])

\* A loop that drops a duplicate without counting it in skipped.
RECURSIVE BatchScan_DuplicateNotCounted(_, _, _, _, _)
BatchScan_DuplicateNotCounted(coll, entries, validate_duplicates, t, n) ==
    IF n = 0 THEN [documents |-> <<>>, skipped |-> 0, errors |-> <<>>]
    ELSE
        LET acc == BatchScan_DuplicateNotCounted(coll, entries,
                                                 validate_duplicates, t, n - 1)
            entry == entries[n]
        IN  IF ConversionFails(entry)
            THEN [acc EXCEPT !.errors = Append(@, <<"Entry", n - 1>>),
                             !.skipped = @ + 1]
            ELSE IF validate_duplicates
                    /\ \E doc \in coll : Identity(doc) = Identity(EntryDict(entry, t))
            THEN acc
            ELSE [acc EXCEPT !.documents = Append(@, EntryDict(entry, t))]

\* The loop of create_batch over the first n entries: the documents to
\* insert, the skipped count and the indexes reported in errors.
RECURSIVE BatchScan(_, _, _, _, _)
BatchScan(coll, entries, validate_duplicates, t, n) ==
    IF n = 0 THEN [documents |-> <<>>, skipped |-> 0, errors |-> <<>>]
    ELSE
        LET acc == BatchScan(coll, entries, validate_duplicates, t, n - 1)
            entry == entries[n]
        IN  IF ConversionFails(entry)
            THEN [acc EXCEPT !.errors = Append(@, <<"Entry", n - 1>>),
                             !.skipped = @ + 1]
            ELSE IF validate_duplicates /\ FindDuplicate(coll, EntryDict(entry, t))
            THEN [acc EXCEPT !.skipped = @ + 1]
            ELSE [acc EXCEPT !.documents = Append(@, EntryDict(entry, t))]

\* collection.insert_many(documents), ordered: ids firstId.. in order; when
\* the store raises, the first `done` documents are in.
InsertMany(coll, documents, firstId, done) ==
    coll \cup {WithId(documents[i], firstId + i - 1) : i \in 1..done}

\* A store fault during insert_many: none, or a failure after `done` documents.
NoFault == [fails |-> FALSE, done |-> 0]
Faults == {NoFault} \cup {[fails |-> TRUE, done |-> k] : k \in {0, 1}}

\* create_batch: the collection afterwards and the returned counts.
CreateBatch(coll, entries, validate_duplicates, t, firstId, fault) ==
    LET scan == BatchScan(coll, entries, validate_duplicates, t, Len(entries))
        documents == scan.documents
        raised == documents # <<>> /\ fault.fails /\ fault.done < Len(documents)
    IN  [coll |-> IF documents = <<>> THEN coll
                  ELSE InsertMany(coll, documents, firstId,
                                  IF raised THEN fault.done ELSE Len(documents)),
         ids |-> Len(documents),
         raised |-> raised,
         result |->
            [imported |-> IF raised \/ documents = <<>> THEN 0 ELSE Len(documents),
             skipped |-> IF raised THEN scan.skipped + Len(documents) ELSE scan.skipped,
             errors |-> IF raised THEN Append(scan.errors, <<"Batch insert error", 0>>)
                        ELSE scan.errors]]

\* create_entry: the stored document (insert_one), or an unhandled exception.
CreateEntry(coll, entry, t, id) == coll \cup {WithId(EntryDict(entry, t), id)}

\* ObjectId(entry_id) raises InvalidId unless the text is an ObjectId; the
\* model writes ids as numbers, and 0 for a text that is none.
MalformedId == 0
ValidObjectId(entry_id) == entry_id # MalformedId

\* A $set of the whole platform_data document in place of its keys.
ApplyUpdate_ReplacingPlatformData(doc, fields, platform_items, t) ==
    LET scalars == DictUpdate(doc, fields)
        extended == IF DOMAIN platform_items = {} THEN scalars
                    ELSE DictUpdate(scalars, [platform_data |-> platform_items])
    IN  DictUpdate(extended, [updated_at |-> t])

\* The $set of update_entry applied to a document: supplied scalars overwrite,
\* "platform_data.<key>" writes <key> inside the nested platform_data
\* document, updated_at is stamped.
ApplyUpdate(doc, fields, platform_items, t) ==
    LET scalars == DictUpdate(doc, fields)
        nested == IF "platform_data" \in DOMAIN doc
                  THEN doc["platform_data"] ELSE EmptyDict
        extended == IF DOMAIN platform_items = {} THEN scalars
                    ELSE DictUpdate(scalars,
                            [platform_data |-> DictUpdate(nested, platform_items)])
    IN  DictUpdate(extended, [updated_at |-> t])

\* An update_entry that goes to the store with whatever it was given.
UpdateEntry_WithoutEarlyReturn(coll, entry_id, update, t) ==
    LET platform_items == IF HasPlatformData(update)
                          THEN update.platform_data.items ELSE EmptyDict
        hit == {doc \in coll : doc["_id"] = entry_id}
    IN  IF ~ValidObjectId(entry_id) \/ hit = {}
        THEN [found |-> FALSE, coll |-> coll]
        ELSE [found |-> TRUE,
              coll |-> (coll \ hit) \cup
                  {ApplyUpdate(doc, update.fields, platform_items, t) : doc \in hit}]

\* update_entry: found (the document is returned) and the collection afterwards.
UpdateEntry(coll, entry_id, update, t) ==
    LET platform_items == IF HasPlatformData(update)
                          THEN update.platform_data.items ELSE EmptyDict
        noop == DOMAIN update.fields = {} /\ ~HasPlatformData(update)
        hit == {doc \in coll : doc["_id"] = entry_id}
    IN  IF noop \/ ~ValidObjectId(entry_id) \/ hit = {}
        THEN [found |-> FALSE, coll |-> coll]
        ELSE [found |-> TRUE,
              coll |-> (coll \ hit) \cup
                  {ApplyUpdate(doc, update.fields, platform_items, t) : doc \in hit}]

\* A delete_entry that reports the deletion whenever the id is well formed.
DeleteEntry_ReportsAnyId(coll, entry_id) ==
    LET hit == {doc \in coll : doc["_id"] = entry_id}
    IN  [deleted |-> ValidObjectId(entry_id),
         coll |-> IF ValidObjectId(entry_id) THEN coll \ hit ELSE coll]

\* delete_entry: deleted_count > 0 and the collection afterwards.
DeleteEntry(coll, entry_id) ==
    LET hit == {doc \in coll : doc["_id"] = entry_id}
    IN  [deleted |-> ValidObjectId(entry_id) /\ hit # {},
         coll |-> IF ValidObjectId(entry_id) THEN coll \ hit ELSE coll]

---------------------------------------------------------------------------
(* The role gate and the allow-list each endpoint declares *)

RequireRole(role, allowed) == role \in allowed

CreateEntryRoles == {"editor", "admin"}
CreateBatchRoles == {"editor", "admin"}
UpdateEntryRoles == {"editor", "admin"}
\* A delete endpoint that admits editors as well.
DeleteEntryRoles_WithEditor == {"admin", "editor"}
DeleteEntryRoles == {"admin"}
FetchItunesRoles == {"editor", "admin"}
FetchAllRoles == {"editor", "admin"}
ReadRoles == Roles

HTTP_201 == 201
HTTP_200 == 200
HTTP_204 == 204
HTTP_400 == 400
HTTP_401 == 401
HTTP_403 == 403
HTTP_404 == 404
HTTP_500 == 500
HTTP_503 == 503

\* A response records the request it answers and its body; both are JSON
\* objects, and these stand for none.
NoRole == "-"
NoReq == [none |-> "request"]
NoBody == [none |-> "body"]
Response(op, role, status, req, body) ==
    [op |-> op, role |-> role, status |-> status, req |-> req, body |-> body]

Forbidden(op, role) ==
    /\ last' = Response(op, role, HTTP_403, NoReq, NoBody)
    /\ UNCHANGED <<store, nextId, now>>

---------------------------------------------------------------------------
(* routers/charts.py *)

\* POST /charts
create_chart_entry(role, body) ==
    /\ UNCHANGED authVars
    /\ IF ~RequireRole(role, CreateEntryRoles) THEN Forbidden("create", role)
       ELSE IF ~body.wellformed \/ ConversionFails(body)
       THEN /\ last' = Response("create", role, HTTP_500, body, NoBody)
            /\ UNCHANGED <<store, nextId, now>>
       ELSE /\ nextId <= MaxId
            /\ store' = CreateEntry(store, body, now, nextId)
            /\ nextId' = nextId + 1
            /\ last' = Response("create", role, HTTP_201, body, [id |-> nextId])
            /\ UNCHANGED now

\* What is kept of a batch request: the flag, the number of entries, of
\* entries the schema rejects and of entries that fail conversion.
BatchSummary(entries, validate_duplicates) ==
    [validate_duplicates |-> validate_duplicates,
     size |-> Len(entries),
     malformed |-> Cardinality({i \in 1..Len(entries) : ~entries[i].wellformed}),
     unconvertible |-> Cardinality({i \in 1..Len(entries) :
                          entries[i].wellformed /\ ~entries[i].platform_data.isDict})]

\* POST /charts/batch on a collection: the status, the collection afterwards,
\* the ids used and the response body.
BatchRequest(coll, role, entries, validate_duplicates, t, firstId, fault) ==
    LET refused(status) == [status |-> status, coll |-> coll, ids |-> 0,
                            raised |-> FALSE, body |-> NoBody]
    IN  IF ~RequireRole(role, CreateBatchRoles) THEN refused(HTTP_403)
        ELSE IF Len(entries) > BatchLimit THEN refused(HTTP_400)
        ELSE IF \E i \in 1..Len(entries) : ~entries[i].wellformed
        THEN refused(HTTP_500)
        ELSE LET out == CreateBatch(coll, entries, validate_duplicates, t,
                                    firstId, fault)
             IN  [status |-> HTTP_201, coll |-> out.coll, ids |-> out.ids,
                  raised |-> out.raised, body |-> out.result]

create_chart_entries_batch(role, entries, validate_duplicates, fault) ==
    /\ UNCHANGED authVars
    /\ \E out \in {BatchRequest(store, role, entries, validate_duplicates, now,
                                  nextId, fault)} :
           /\ nextId + out.ids <= MaxId + 1
           /\ fault.fails => out.raised
           /\ store' = out.coll
           /\ nextId' = nextId + out.ids
           /\ last' = Response("batch", role, out.status,
                               BatchSummary(entries, validate_duplicates),
                               out.body)
           /\ UNCHANGED now

\* Bodies of PUT /charts/{id}: the supplied scalar fields and platform_data.
UpdateBodies ==
    {[fields |-> EmptyDict, platform_data |-> NoPlatformData],
     [fields |-> [rank |-> 2], platform_data |-> NoPlatformData],
     [fields |-> [country |-> "Global"], platform_data |-> NoPlatformData],
     [fields |-> EmptyDict,
      platform_data |-> [isDict |-> TRUE, items |-> [itunes_id |-> "y"]]],
     [fields |-> EmptyDict,
      platform_data |-> [isDict |-> FALSE, items |-> EmptyDict]]}

EntryIds == {MalformedId} \cup 1..MaxId

\* PUT /charts/{entry_id}
update_chart_entry(role, entry_id, body) ==
    /\ UNCHANGED authVars
    /\ LET req == [entry_id |-> entry_id, update |-> body]
       IN
       IF ~RequireRole(role, UpdateEntryRoles) THEN Forbidden("update", role)
       ELSE IF ConversionFails(body)
       THEN /\ last' = Response("update", role, HTTP_500, req, NoBody)
            /\ UNCHANGED <<store, nextId, now>>
       ELSE LET out == UpdateEntry(store, entry_id, body, now)
            IN  /\ store' = out.coll
                /\ last' = Response("update", role,
                                    IF out.found THEN HTTP_200 ELSE HTTP_404,
                                    req, NoBody)
                /\ UNCHANGED <<nextId, now>>

\* DELETE /charts/{entry_id}
delete_chart_entry(role, entry_id) ==
    /\ UNCHANGED authVars
    /\ IF ~RequireRole(role, DeleteEntryRoles) THEN Forbidden("delete", role)
       ELSE LET out == DeleteEntry(store, entry_id)
            IN  /\ store' = out.coll
                /\ last' = Response("delete", role,
                                    IF out.deleted THEN HTTP_204 ELSE HTTP_404,
                                    [entry_id |-> entry_id], NoBody)
                /\ UNCHANGED <<nextId, now>>

\* The filters of GET /charts.  An absent date is NoDate, an absent text is
\* empty (the service tests each parameter for truth).
NoDate == 0
NoText == ""
NoPattern == <<>>

Lower(ch) == IF ch = "A" THEN "a" ELSE IF ch = "B" THEN "b" ELSE ch

\* {"$regex": pattern, "$options": "i"} on a text: the pattern (literal
\* characters) occurs in it, letter case ignored.
RegexMatchI(pattern, text) ==
    \E i \in 0..(Len(text) - Len(pattern)) :
        \A j \in 1..Len(pattern) : Lower(text[i + j]) = Lower(pattern[j])

\* A filter that applies the exact date and the range together.
MatchesFilter_DateAndRange(doc, q) ==
    /\ q.filter_date # NoDate => doc.date = IsoFormat(q.filter_date)
    /\ q.date_from # NoDate => TextLeq(IsoFormat(q.date_from), doc.date)
    /\ q.date_to # NoDate => TextLeq(doc.date, IsoFormat(q.date_to))
    /\ q.source # NoText => doc.source = q.source
    /\ q.country # NoText => doc.country = q.country
    /\ q.artist # NoPattern => RegexMatchI(q.artist, doc.artist)

\* The filter document get_entries_direct builds, applied to a document.
MatchesFilter(doc, q) ==
    /\ IF q.filter_date # NoDate THEN doc.date = IsoFormat(q.filter_date)
       ELSE /\ q.date_from # NoDate => TextLeq(IsoFormat(q.date_from), doc.date)
            /\ q.date_to # NoDate => TextLeq(doc.date, IsoFormat(q.date_to))
    /\ q.source # NoText => doc.source = q.source
    /\ q.country # NoText => doc.country = q.country
    /\ q.artist # NoPattern => RegexMatchI(q.artist, doc.artist)

\* The orderings of a set of documents a cursor may produce.
Orderings(docs) ==
    {f \in [1..Cardinality(docs) -> docs] :
        \A i, j \in 1..Cardinality(docs) : i # j => f[i] # f[j]}

\* cursor.sort("date", -1).sort("rank", 1): each sort() replaces the
\* cursor's ordering, so the cursor is ordered by rank ascending alone;
\* documents of equal rank come in an order the store does not fix.
SortedCursor(docs) ==
    {f \in Orderings(docs) :
        \A i, j \in 1..Len(f) : i < j => f[i].rank <= f[j].rank}

\* cursor.skip(offset).limit(limit)
SkipLimit(cursor, offset, limit) ==
    SubSeq(cursor, offset + 1, IF offset + limit < Len(cursor)
                               THEN offset + limit ELSE Len(cursor))

\* What the loop over the cursor makes of a document.
ToResponse(doc) ==
    [DictUpdate(doc, [id |-> doc["_id"]]) EXCEPT !.date = FromIsoFormat(@)]

\* get_entries_direct: the lists it may return.
GetEntriesDirect(coll, q) ==
    {[i \in 1..Len(page) |-> ToResponse(page[i])] :
        page \in {SkipLimit(cursor, q.offset, q.limit) :
                    cursor \in SortedCursor({doc \in coll : MatchesFilter(doc, q)})}}

LimitMax == 1000

\* The queries requests make: limit and offset, a date or a range or both,
\* a country, an artist pattern.
QueryParams ==
    {[limit |-> p[1], offset |-> p[2], filter_date |-> f, date_from |-> r[1],
      date_to |-> r[2], source |-> NoText, country |-> c, artist |-> a] :
        p \in {<<LimitMax, 0>>, <<1, 0>>, <<1, 1>>},
        f \in {NoDate, Today},
        r \in {<<NoDate, NoDate>>, <<1, 1>>},
        c \in {NoText, "US"},
        a \in {NoPattern, <<"a">>}}

\* GET /charts
get_charts(role, q, entries) ==
    /\ UNCHANGED authVars
    /\ RequireRole(role, ReadRoles)
    /\ entries \in GetEntriesDirect(store, q)
    /\ last' = Response("query", role, HTTP_200, q, [entries |-> entries])
    /\ UNCHANGED <<store, nextId, now>>

\* The filter document get_top_charts builds, applied to a document.
MatchesTop(doc, q) ==
    /\ doc.date = IsoFormat(q.date)
    /\ q.source # NoText => doc.source = q.source
    /\ q.country # NoText => doc.country = q.country

\* A cursor that is not sorted.
TopCursor_Unsorted(docs) == Orderings(docs)

\* cursor.sort("rank", 1); documents of equal rank come in an order the store
\* does not fix.
TopCursor(docs) ==
    {f \in Orderings(docs) :
        \A i, j \in 1..Len(f) : i < j => f[i].rank <= f[j].rank}

\* get_top_charts: the lists it may return.
GetTopCharts(coll, q) ==
    {[i \in 1..Len(page) |-> ToResponse(page[i])] :
        page \in {SkipLimit(cursor, 0, q.limit) :
                    cursor \in TopCursor({doc \in coll : MatchesTop(doc, q)})}}

TopLimitMax == 100

\* The queries of GET /charts/top: a date, a limit from 1 to TopLimitMax, a
\* country or none.
TopQueries ==
    {[date |-> d, limit |-> n, source |-> s, country |-> c] :
        d \in Dates, n \in {1, 2, TopLimitMax}, s \in {NoText, APPLE_MUSIC},
        c \in {NoText, "US"}}

\* GET /charts/top
get_top_charts(role, q, entries) ==
    /\ UNCHANGED authVars
    /\ RequireRole(role, ReadRoles)
    /\ entries \in GetTopCharts(store, q)
    /\ last' = Response("top", role, HTTP_200, q, [entries |-> entries])
    /\ UNCHANGED <<store, nextId, now>>

\* datetime.combine(date, time) and datetime.isoformat(): the text of a
\* datetime is the text of its date followed by "T" and the time, so it is
\* longer than the text of the date and follows it in the order of texts.
MinTime == 0
MaxTime == 1
NoDateTime == [day |-> NoDate, time |-> MinTime]
Combine(d, t) == [day |-> d, time |-> t]
DateTimeIsoFormat(dt) == <<dt.day, dt.time>>

\* The filter document get_artist_history builds, applied to a document.
MatchesHistory(doc, artist_name, date_from, date_to) ==
    /\ RegexMatchI(artist_name, doc.artist)
    /\ date_from # NoDateTime => TextLeq(DateTimeIsoFormat(date_from), doc.date)
    /\ date_to # NoDateTime => TextLeq(doc.date, DateTimeIsoFormat(date_to))

\* get_artist_history: the lists it may return, from
\* find(filter).sort("date", -1).sort("rank", 1) with no limit.
GetArtistHistory(coll, artist_name, date_from, date_to) ==
    {[i \in 1..Len(cursor) |-> ToResponse(cursor[i])] :
        cursor \in SortedCursor({doc \in coll :
                        MatchesHistory(doc, artist_name, date_from, date_to)})}

\* GET /charts/artist/{artist_name}
get_artist_history(role, artist_name, date_from, date_to, entries) ==
    /\ UNCHANGED authVars
    /\ RequireRole(role, ReadRoles)
    /\ LET date_from_dt == IF date_from # NoDate THEN Combine(date_from, MinTime)
                           ELSE NoDateTime
           date_to_dt == IF date_to # NoDate THEN Combine(date_to, MaxTime)
                         ELSE NoDateTime
       IN  entries \in GetArtistHistory(store, artist_name, date_from_dt, date_to_dt)
    /\ last' = Response("history", role, HTTP_200,
                        [artist_name |-> artist_name, date_from |-> date_from,
                         date_to |-> date_to],
                        [entries |-> entries])
    /\ UNCHANGED <<store, nextId, now>>

---------------------------------------------------------------------------
(* services/external_api_service.py and routers/data_sync.py *)

Upper(country) == IF country = "us" THEN "US" ELSE country
LowerText(country) == IF country = "US" THEN "us" ELSE country

\* What the feed answers: requests.get raises ("timeout"), the status is not
\* 200 ("status"), response.json() raises ("unparsable"), or a list of
\* songs, each of which maps to an entry or raises while being mapped.
FeedFailures == {"timeout", "status", "unparsable"}
FeedDown == [outcome |-> "timeout", songs |-> <<>>]
FeedResponses ==
    {[outcome |-> o, songs |-> <<>>] : o \in FeedFailures} \cup
    {[outcome |-> "ok", songs |-> songs] :
        songs \in UNION {[1..n -> BOOLEAN] : n \in 0..MaxFeed}}

FeedLimit == 200

RECURSIVE SelectMapped(_, _, _, _)
SelectMapped(songs, limit, country, idx) ==
    IF idx = 0 THEN <<>>
    ELSE LET before == SelectMapped(songs, limit, country, idx - 1)
         IN  IF songs[idx]
             THEN Append(before, EntryBody(Today, idx, Upper(country), NoPlatformData))
             ELSE before

\* The body of the try of fetch_itunes_top_songs: an exception of
\* requests.get or response.json() leaves it, a status other than 200 gives
\* [], and else the entries for songs[:limit], ranked by position.
TryFetch(feed, country, limit) ==
    IF feed.outcome \in {"timeout", "unparsable"}
    THEN [raised |-> TRUE, entries |-> <<>>]
    ELSE IF feed.outcome = "status"
    THEN [raised |-> FALSE, entries |-> <<>>]
    ELSE [raised |-> FALSE,
          entries |-> SelectMapped(feed.songs, limit, country,
                        IF limit < Len(feed.songs) THEN limit ELSE Len(feed.songs))]

\* An adapter without the except clause around its body.
FetchItunesTopSongs_Uncaught(feed, country, limit) == TryFetch(feed, country, limit)

\* fetch_itunes_top_songs: `except Exception` returns [] for whatever the
\* body raises.
FetchItunesTopSongs(feed, country, limit) ==
    LET out == TryFetch(feed, country, limit)
    IN  IF out.raised THEN [raised |-> FALSE, entries |-> <<>>] ELSE out

\* A call of the adapter.
fetch_itunes_top_songs(feed, country, limit) ==
    /\ last' = Response("adapter", NoRole, 0,
                        [feed |-> feed, country |-> country, limit |-> limit],
                        FetchItunesTopSongs(feed, country, limit))
    /\ UNCHANGED <<store, nextId, now>>
    /\ UNCHANGED authVars

\* A loop over range(days_back), which stops a day short.
RECURSIVE BackFill_RangeWithoutLast(_, _, _, _, _, _)
BackFill_RangeWithoutLast(coll, entries, t, firstId, from, days_back) ==
    IF from > days_back - 1
    THEN [coll |-> coll, ids |-> 0, imported |-> 0, skipped |-> 0]
    ELSE LET dated == [i \in 1..Len(entries) |->
                          [entries[i] EXCEPT !.date = Today - from]]
             one == CreateBatch(coll, dated, TRUE, t, firstId, NoFault)
             rest == BackFill_RangeWithoutLast(one.coll, entries, t,
                        firstId + one.ids, from + 1, days_back)
         IN  [coll |-> rest.coll, ids |-> one.ids + rest.ids,
              imported |-> one.result.imported + rest.imported,
              skipped |-> one.result.skipped + rest.skipped]

\* The back-fill loop of fetch_itunes for day_offset = from..days_back.
RECURSIVE BackFill(_, _, _, _, _, _)
BackFill(coll, entries, t, firstId, from, days_back) ==
    IF from > days_back
    THEN [coll |-> coll, ids |-> 0, imported |-> 0, skipped |-> 0]
    ELSE LET dated == [i \in 1..Len(entries) |->
                          [entries[i] EXCEPT !.date = Today - from]]
             one == CreateBatch(coll, dated, TRUE, t, firstId, NoFault)
             rest == BackFill(one.coll, entries, t, firstId + one.ids,
                              from + 1, days_back)
         IN  [coll |-> rest.coll, ids |-> one.ids + rest.ids,
              imported |-> one.result.imported + rest.imported,
              skipped |-> one.result.skipped + rest.skipped]

\* The status a sync endpoint answers with when the adapter returns nothing:
\* the HTTPException(503) is raised inside the handler's try, whose
\* `except Exception` turns it into a 500.
SyncEmptyStatus == HTTP_500

Sync(op, role, fetched, days_back) ==
    LET entries == fetched.entries IN
    IF fetched.raised
    THEN /\ last' = Response(op, role, HTTP_500,
                             [days_back |-> days_back, fetched |-> 0, ranking |-> <<>>],
                             NoBody)
         /\ UNCHANGED <<store, nextId, now>>
    ELSE IF entries = <<>>
    THEN /\ last' = Response(op, role, SyncEmptyStatus,
                             [days_back |-> days_back, fetched |-> 0, ranking |-> <<>>],
                             NoBody)
         /\ UNCHANGED <<store, nextId, now>>
    ELSE LET out == IF days_back > 0
                    THEN BackFill(store, entries, now, nextId, 0, days_back)
                    ELSE LET one == CreateBatch(store, entries, TRUE, now,
                                                nextId, NoFault)
                         IN  [coll |-> one.coll, ids |-> one.ids,
                              imported |-> one.result.imported,
                              skipped |-> one.result.skipped]
         IN  /\ nextId + out.ids <= MaxId + 1
             /\ store' = out.coll
             /\ nextId' = nextId + out.ids
             /\ last' = Response(op, role, HTTP_201,
                                 [days_back |-> days_back, fetched |-> Len(entries),
                                  ranking |-> entries],
                                 [fetched |-> Len(entries),
                                  imported |-> out.imported,
                                  skipped |-> out.skipped])
             /\ UNCHANGED now

\* POST /sync/fetch/itunes
fetch_itunes(role, country, limit, days_back, feed) ==
    /\ UNCHANGED authVars
    /\ IF ~RequireRole(role, FetchItunesRoles) THEN Forbidden("fetch_itunes", role)
       ELSE Sync("fetch_itunes", role,
                 FetchItunesTopSongs(feed, country,
                                     IF limit < FeedLimit THEN limit ELSE FeedLimit),
                 days_back)

\* POST /sync/fetch/all
fetch_all_sources(role, country, feed) ==
    /\ UNCHANGED authVars
    /\ IF ~RequireRole(role, FetchAllRoles) THEN Forbidden("fetch_all", role)
       ELSE Sync("fetch_all", role,
                 FetchItunesTopSongs(feed, LowerText(country), FeedLimit), 0)

---------------------------------------------------------------------------
(* core/security.py: password hashing and the token codec *)

ACCESS_TOKEN_EXPIRE_MINUTES == 30
REFRESH_TOKEN_EXPIRE_DAYS == 7
MinutesPerDay == 1440
SECRET_KEY == "default-secret-key-for-development-only-change-in-production"

get_password_hash(password) == <<"hash", password>>
verify_password(password, hashed_password) ==
    hashed_password = get_password_hash(password)

\* The signature of a payload under a key.
Sign(payload, key) == <<key, payload>>

\* A token: the payload and its signature.
Encode(payload) == [payload |-> payload, sig |-> Sign(payload, SECRET_KEY)]

create_access_token(data, expires_delta, t) ==
    Encode(DictUpdate(data, [type |-> "access", exp |-> t + expires_delta]))

create_refresh_token(data, t) ==
    Encode(DictUpdate(data,
        [type |-> "refresh", exp |-> t + REFRESH_TOKEN_EXPIRE_DAYS * MinutesPerDay]))

\* decode_token: the payload, or nothing on a bad signature, a malformed
\* token or an expiry in the past.
Invalid == [valid |-> FALSE, payload |-> EmptyDict]
decode_token(token, t) ==
    IF token.sig # Sign(token.payload, SECRET_KEY) THEN Invalid
    ELSE IF "exp" \notin DOMAIN token.payload THEN Invalid
    ELSE IF token.payload.exp < t THEN Invalid
    ELSE [valid |-> TRUE, payload |-> token.payload]

\* payload.get(key)
Get(d, key) == IF key \in DOMAIN d THEN d[key] ELSE "None"

---------------------------------------------------------------------------
(* services/auth_service.py over the users table of models/user.py *)

Workers == {"w1", "w2"}
Usernames == {"alice", "bob"}
Emails == {"a@x.org", "b@x.org"}
Passwords == {"password1", "password2"}

NeverLoggedIn == -1

\* UserCreate bodies
UserCreates ==
    [username : Usernames, email : Emails, password : {"password1"},
     role : {"viewer", "admin"}]

\* db.query(User).filter(User.<column> == value).first() finds a row.
UsersBy(rows, column, value) == {u \in rows : u[column] = value}

\* A users table without unique constraints.
UniqueConstraintsAdmit_Unconstrained(rows, row) == TRUE

\* The unique constraints of the users table (username, email) admit a row.
UniqueConstraintsAdmit(rows, row) ==
    /\ UsersBy(rows, "username", row.username) = {}
    /\ UsersBy(rows, "email", row.email) = {}

\* The row register_user adds: is_active defaults to true, last_login to null.
NewUser(user_create, id) ==
    [id |-> id, username |-> user_create.username, email |-> user_create.email,
     hashed_password |-> get_password_hash(user_create.password),
     role |-> user_create.role, is_active |-> TRUE, last_login |-> NeverLoggedIn]

Idle == [pc |-> "idle", req |-> NoReq, username_taken |-> FALSE, email_taken |-> FALSE]

AuthResponse(op, req, status, detail, body) ==
    [op |-> op, req |-> req, status |-> status, detail |-> detail, body |-> body]

\* POST /auth/register arrives at a worker.
register_arrive(w, user_create) ==
    /\ reg[w].pc = "idle"
    /\ reg' = [reg EXCEPT ![w] =
                [pc |-> "arrived", req |-> user_create,
                 username_taken |-> UsersBy(users, "username", user_create.username) # {},
                 email_taken |-> UsersBy(users, "email", user_create.email) # {}]]
    /\ UNCHANGED <<users, nextUserId, issued, authLast, now, chartVars>>

RegisterFails(w, status, detail) ==
    /\ authLast' = AuthResponse("register", reg[w], status, detail, NoBody)
    /\ reg' = [reg EXCEPT ![w] = Idle]
    /\ UNCHANGED <<users, nextUserId>>

\* register_user, the username query
register_check_username(w) ==
    /\ reg[w].pc = "arrived"
    /\ IF UsersBy(users, "username", reg[w].req.username) # {}
       THEN RegisterFails(w, HTTP_400, "Username already registered")
       ELSE /\ reg' = [reg EXCEPT ![w].pc = "checked_username"]
            /\ UNCHANGED <<users, nextUserId, authLast>>
    /\ UNCHANGED <<issued, now, chartVars>>

\* A registration that goes on to the commit without the email query.
register_check_email_Omitted(w) ==
    /\ reg[w].pc = "checked_username"
    /\ reg' = [reg EXCEPT ![w].pc = "checked_email"]
    /\ UNCHANGED <<users, nextUserId, authLast, issued, now, chartVars>>

\* register_user, the email query
register_check_email(w) ==
    /\ reg[w].pc = "checked_username"
    /\ IF UsersBy(users, "email", reg[w].req.email) # {}
       THEN RegisterFails(w, HTTP_400, "Email already registered")
       ELSE /\ reg' = [reg EXCEPT ![w].pc = "checked_email"]
            /\ UNCHANGED <<users, nextUserId, authLast>>
    /\ UNCHANGED <<issued, now, chartVars>>

\* register_user, db.add and db.commit: the table's unique constraints
\* refuse a second row of the same username or email (IntegrityError).
register_commit(w) ==
    /\ reg[w].pc = "checked_email"
    /\ LET row == NewUser(reg[w].req, nextUserId)
       IN  IF UniqueConstraintsAdmit(users, row)
           THEN /\ users' = users \cup {row}
                /\ nextUserId' = nextUserId + 1
                /\ authLast' = AuthResponse("register", reg[w], HTTP_201, "", row)
                /\ reg' = [reg EXCEPT ![w] = Idle]
           ELSE RegisterFails(w, HTTP_500, "IntegrityError")
    /\ UNCHANGED <<issued, now, chartVars>>

\* POST /auth/register handled without another request in between.
register(user_create) ==
    /\ LET row == NewUser(user_create, nextUserId)
           req == [pc |-> "arrived", req |-> user_create,
                   username_taken |->
                       UsersBy(users, "username", user_create.username) # {},
                   email_taken |-> UsersBy(users, "email", user_create.email) # {}]
           fails(status, detail) ==
               /\ authLast' = AuthResponse("register", req, status, detail, NoBody)
               /\ UNCHANGED <<users, nextUserId>>
       IN  IF UsersBy(users, "username", user_create.username) # {}
           THEN fails(HTTP_400, "Username already registered")
           ELSE IF UsersBy(users, "email", user_create.email) # {}
           THEN fails(HTTP_400, "Email already registered")
           ELSE /\ users' = users \cup {row}
                /\ nextUserId' = nextUserId + 1
                /\ authLast' = AuthResponse("register", req, HTTP_201, "", row)
    /\ UNCHANGED <<reg, issued, now, chartVars>>

\* The active flag of a user is changed (by an administrator, in the table).
set_active(username, flag) ==
    /\ \E u \in users : u.username = username /\ u.is_active # flag
    /\ users' = {IF u.username = username THEN [u EXCEPT !.is_active = flag] ELSE u :
                    u \in users}
    /\ UNCHANGED <<nextUserId, reg, issued, authLast, now, chartVars>>

\* A login that stamps last_login before it looks at is_active.
authenticate_user_StampsInactive(rows, user_login, t) ==
    LET found == UsersBy(rows, "username", user_login.username)
        user == CHOOSE u \in found : TRUE
        stamped == (rows \ {user}) \cup {[user EXCEPT !.last_login = t]}
    IN  IF found = {}
        THEN [status |-> HTTP_401, detail |-> "Incorrect username or password",
              rows |-> rows, user |-> NoBody]
        ELSE IF ~verify_password(user_login.password, user.hashed_password)
        THEN [status |-> HTTP_401, detail |-> "Incorrect username or password",
              rows |-> rows, user |-> NoBody]
        ELSE IF ~user.is_active
        THEN [status |-> HTTP_403, detail |-> "User account is inactive",
              rows |-> stamped, user |-> NoBody]
        ELSE [status |-> HTTP_200, detail |-> "", rows |-> stamped,
              user |-> [user EXCEPT !.last_login = t]]

\* authenticate_user: the status and detail, and the table afterwards.
authenticate_user(rows, user_login, t) ==
    LET found == UsersBy(rows, "username", user_login.username)
        user == CHOOSE u \in found : TRUE
    IN  IF found = {}
        THEN [status |-> HTTP_401, detail |-> "Incorrect username or password",
              rows |-> rows, user |-> NoBody]
        ELSE IF ~verify_password(user_login.password, user.hashed_password)
        THEN [status |-> HTTP_401, detail |-> "Incorrect username or password",
              rows |-> rows, user |-> NoBody]
        ELSE IF ~user.is_active
        THEN [status |-> HTTP_403, detail |-> "User account is inactive",
              rows |-> rows, user |-> NoBody]
        ELSE [status |-> HTTP_200, detail |-> "",
              rows |-> (rows \ {user}) \cup {[user EXCEPT !.last_login = t]},
              user |-> [user EXCEPT !.last_login = t]]

\* A pair whose access token takes the lifetime in seconds for minutes.
create_tokens_LifetimeInSeconds(user, t) ==
    [access_token |->
        create_access_token(
            [sub |-> user.username, role |-> user.role, user_id |-> user.id],
            ACCESS_TOKEN_EXPIRE_MINUTES * 60, t),
     refresh_token |->
        create_refresh_token([sub |-> user.username, user_id |-> user.id], t),
     token_type |-> "bearer",
     expires_in |-> ACCESS_TOKEN_EXPIRE_MINUTES * 60]

\* create_tokens
create_tokens(user, t) ==
    [access_token |->
        create_access_token(
            [sub |-> user.username, role |-> user.role, user_id |-> user.id],
            ACCESS_TOKEN_EXPIRE_MINUTES, t),
     refresh_token |->
        create_refresh_token([sub |-> user.username, user_id |-> user.id], t),
     token_type |-> "bearer",
     expires_in |-> ACCESS_TOKEN_EXPIRE_MINUTES * 60]

\* A pair handed out, with when and for whom.
Issue(tokens, user, t) == [tokens |-> tokens, at |-> t, sub |-> user.username]

\* A refresh that does not look at the type of the token.
refresh_access_token_AnyType(refresh_token, rows, t) ==
    LET decoded == decode_token(refresh_token, t)
        payload == decoded.payload
        found == UsersBy(rows, "username", Get(payload, "sub"))
        user == CHOOSE u \in found : TRUE
    IN  IF ~decoded.valid
        THEN [status |-> HTTP_401, detail |-> "Invalid refresh token", user |-> NoBody]
        ELSE IF found = {} \/ ~user.is_active
        THEN [status |-> HTTP_401, detail |-> "Invalid refresh token", user |-> NoBody]
        ELSE [status |-> HTTP_200, detail |-> "", user |-> user]

\* A refresh that names the cause when the user is inactive.
refresh_access_token_TellsInactive(refresh_token, rows, t) ==
    LET decoded == decode_token(refresh_token, t)
        payload == decoded.payload
        found == UsersBy(rows, "username", Get(payload, "sub"))
        user == CHOOSE u \in found : TRUE
    IN  IF ~decoded.valid \/ Get(payload, "type") # "refresh"
        THEN [status |-> HTTP_401, detail |-> "Invalid refresh token", user |-> NoBody]
        ELSE IF found = {}
        THEN [status |-> HTTP_401, detail |-> "Invalid refresh token", user |-> NoBody]
        ELSE IF ~user.is_active
        THEN [status |-> HTTP_401, detail |-> "User account is inactive", user |-> NoBody]
        ELSE [status |-> HTTP_200, detail |-> "", user |-> user]

\* refresh_access_token: the status and detail, and the pair on success.
refresh_access_token(refresh_token, rows, t) ==
    LET decoded == decode_token(refresh_token, t)
        payload == decoded.payload
        found == UsersBy(rows, "username", Get(payload, "sub"))
        user == CHOOSE u \in found : TRUE
    IN  IF ~decoded.valid \/ Get(payload, "type") # "refresh"
        THEN [status |-> HTTP_401, detail |-> "Invalid refresh token", user |-> NoBody]
        ELSE IF found = {} \/ ~user.is_active
        THEN [status |-> HTTP_401, detail |-> "Invalid refresh token", user |-> NoBody]
        ELSE [status |-> HTTP_200, detail |-> "", user |-> user]


\* POST /auth/token: authenticate_user, then create_tokens.
login(username, password) ==
    LET user_login == [username |-> username, password |-> password]
        out == authenticate_user(users, user_login, now)
        tokens == create_tokens(out.user, now)
    IN  /\ users' = out.rows
        /\ IF out.status = HTTP_200
           THEN /\ issued' = issued \cup {Issue(tokens, out.user, now)}
                /\ Cardinality(issued') <= MaxIssued
                /\ authLast' = AuthResponse("login", user_login, HTTP_200, "", tokens)
           ELSE /\ authLast' = AuthResponse("login", user_login, out.status,
                                            out.detail, NoBody)
                /\ UNCHANGED issued
        /\ UNCHANGED <<nextUserId, reg, now, chartVars>>

\* What a client can make of a token without the key: the payload altered,
\* the signature kept.
Tampered(token) ==
    {[token EXCEPT !.payload = DictUpdate(@, change)] :
        change \in {[type |-> "refresh"], [type |-> "access"]}
                   \cup {[exp |-> token.payload.exp
                                  + REFRESH_TOKEN_EXPIRE_DAYS * MinutesPerDay]}
                   \cup {[sub |-> u] : u \in Usernames}} \ {token}

MalformedToken == [payload |-> [junk |-> "x"], sig |-> <<"", [junk |-> "x"]>>]

TokensOf(pair) == {pair.tokens.access_token, pair.tokens.refresh_token}

\* The tokens a client may present.
Presentable ==
    {MalformedToken} \cup UNION {TokensOf(pair) : pair \in issued}
        \cup UNION {Tampered(tok) : tok \in UNION {TokensOf(pair) : pair \in issued}}

\* POST /auth/refresh
refresh_token(token) ==
    LET out == refresh_access_token(token, users, now)
        tokens == create_tokens(out.user, now)
    IN  /\ IF out.status = HTTP_200
           THEN /\ issued' = issued \cup {Issue(tokens, out.user, now)}
                /\ Cardinality(issued') <= MaxIssued
                /\ authLast' = AuthResponse("refresh", token, HTTP_200, "", tokens)
           ELSE /\ authLast' = AuthResponse("refresh", token, out.status,
                                            out.detail, NoBody)
                /\ UNCHANGED issued
        /\ UNCHANGED <<users, nextUserId, reg, now, chartVars>>

\* Time passes: the moments of the checks are the expiry of an access token
\* handed out at 0, the minute after it, and the minute after the expiry of
\* the refresh token handed out with it.
Moments ==
    {ACCESS_TOKEN_EXPIRE_MINUTES, ACCESS_TOKEN_EXPIRE_MINUTES + 1,
     REFRESH_TOKEN_EXPIRE_DAYS * MinutesPerDay + 1}

Tick ==
    /\ \E t \in Moments : t > now /\ now' = t
    /\ UNCHANGED <<authVars, chartVars>>

\* datetime.utcnow() of a later request is later.
Later ==
    /\ now < MaxLater
    /\ now' = now + 1
    /\ UNCHANGED <<authVars, chartVars>>

---------------------------------------------------------------------------
(* ChartService.get_trend_analysis and GET /trends/top-artists *)

RECURSIVE SumRanks(_)
SumRanks(docs) ==
    IF docs = {} THEN 0
    ELSE LET doc == CHOOSE d \in docs : TRUE
         IN  doc.rank + SumRanks(docs \ {doc})

\* $match: the documents dated today - days or later (the ISO texts are
\* compared), of the source when one is given.
TrendMatch(coll, days, source) ==
    {doc \in coll : /\ TextLeq(IsoFormat(Today - days), doc.date)
                    /\ source # NoText => doc.source = source}

\* $group by artist: the count and the ranks ($avg is rank_sum / appearances).
TrendGroups(docs) ==
    {LET mine == {doc \in docs : doc.artist = artist}
     IN  [artist |-> artist, appearances |-> Cardinality(mine),
          rank_sum |-> SumRanks(mine),
          best_rank |-> CHOOSE r \in {doc.rank : doc \in mine} :
                            \A doc \in mine : r <= doc.rank,
          worst_rank |-> CHOOSE r \in {doc.rank : doc \in mine} :
                            \A doc \in mine : r >= doc.rank] :
     artist \in {doc.artist : doc \in docs}}

\* $sort {appearances: -1, avg_rank: 1}: a comes no later than b.
TrendOrder(a, b) ==
    \/ a.appearances > b.appearances
    \/ /\ a.appearances = b.appearances
       /\ a.rank_sum * b.appearances <= b.rank_sum * a.appearances

\* The orders $sort may produce; groups equal in both keys come in any order.
RECURSIVE TrendSort(_)
TrendSort(groups) ==
    IF groups = {} THEN {<<>>}
    ELSE UNION {{<<first>> \o rest : rest \in TrendSort(groups \ {first})} :
                first \in {g \in groups : \A h \in groups : TrendOrder(g, h)}}

TrendLimit == 50

\* A mutation of the pipeline that lacks the second $match.
GetTrendAnalysis_NoMinimum(coll, days, source, min_appearances) ==
    {[i \in 1..(IF Len(sorted) < TrendLimit THEN Len(sorted) ELSE TrendLimit) |->
        [artist |-> sorted[i].artist, period_days |-> days,
         total_appearances |-> sorted[i].appearances,
         rank_sum |-> sorted[i].rank_sum,
         best_rank |-> sorted[i].best_rank,
         worst_rank |-> sorted[i].worst_rank]] :
     sorted \in TrendSort(TrendGroups(TrendMatch(coll, days, source)))}

\* get_trend_analysis: the lists the pipeline may return ($match, $group,
\* $match on appearances, $sort, $limit).
GetTrendAnalysis(coll, days, source, min_appearances) ==
    {[i \in 1..(IF Len(sorted) < TrendLimit THEN Len(sorted) ELSE TrendLimit) |->
        [artist |-> sorted[i].artist, period_days |-> days,
         total_appearances |-> sorted[i].appearances,
         rank_sum |-> sorted[i].rank_sum,
         best_rank |-> sorted[i].best_rank,
         worst_rank |-> sorted[i].worst_rank]] :
     sorted \in TrendSort({g \in TrendGroups(TrendMatch(coll, days, source)) :
                            g.appearances >= min_appearances})}

\* GET /trends/top-artists
get_top_artists(role, days, source, min_appearances, trends) ==
    /\ UNCHANGED authVars
    /\ RequireRole(role, ReadRoles)
    /\ trends \in GetTrendAnalysis(store, days, source, min_appearances)
    /\ last' = Response("trends", role, HTTP_200,
                        [days |-> days, source |-> source,
                         min_appearances |-> min_appearances],
                        [trends |-> trends])
    /\ UNCHANGED <<store, nextId, now>>

\* Stores for the analysis: up to MaxTrendDocs documents of three artists,
\* dated today or two days ago, of rank 1 or 2; and a store with one entry
\* of today for each of TrendLimit + 1 artists, at ranks 1, 2, ...
TrendDoc(id, artist, d, r) ==
    [WithId(EntryDict(EntryBody(d, r, "US", NoPlatformData), 0), id)
        EXCEPT !["artist"] = artist]
TrendPool ==
    {TrendDoc(1, <<"a">>, Today, 1), TrendDoc(2, <<"a">>, Today, 2),
     TrendDoc(3, <<"a">>, Today - 2, 1), TrendDoc(4, <<"b">>, Today, 1),
     TrendDoc(5, <<"b">>, Today, 2), TrendDoc(6, <<"b">>, Today - 2, 2),
     TrendDoc(7, <<"c">>, Today, 2), TrendDoc(8, <<"c">>, Today - 2, 1)}
WideStore == {TrendDoc(k, <<"w", k>>, Today, k) : k \in 1..(TrendLimit + 1)}
TrendStores ==
    {docs \in SUBSET TrendPool : Cardinality(docs) <= MaxTrendDocs} \cup {WideStore}

---------------------------------------------------------------------------
(* routers/websocket.py *)

Connections == {1, 2}
Texts == {"x", "y"}
POLICY_VIOLATION == 1008
NotClosed == 0

\* A WebSocket the server has not been asked for yet: where its handler is,
\* the token and time of the request, whether accept() was called, the code
\* of close(), the texts received and the events sent.
NewConnection ==
    [pc |-> "new", token |-> MalformedToken, at |-> 0, accepted |-> FALSE,
     close_code |-> NotClosed, received |-> <<>>, sent |-> <<>>]

Connected == [event |-> "connected", message |-> "Connected to live charts"]
Echo(data) == [event |-> "echo", data |-> data]

\* A verification that looks at the signature and expiry alone.
verify_websocket_token_AnyType(token, t) == decode_token(token, t).valid

\* verify_websocket_token
verify_websocket_token(token, t) ==
    LET payload == decode_token(token, t)
    IN  payload.valid /\ Get(payload.payload, "type") = "access"

\* list.remove(x): the first occurrence goes.
RECURSIVE Remove(_, _)
Remove(list, x) ==
    IF list = <<>> THEN <<>>
    ELSE IF Head(list) = x THEN Tail(list)
    ELSE <<Head(list)>> \o Remove(Tail(list), x)

\* manager.disconnect
Disconnect(list, c) ==
    IF \E i \in 1..Len(list) : list[i] = c THEN Remove(list, c) ELSE list

\* websocket_endpoint up to its first await after the verification:
\* close(1008) and return, or accept() inside manager.connect.
websocket_endpoint(c, token) ==
    /\ conn[c].pc = "new"
    /\ IF ~verify_websocket_token(token, now)
       THEN conn' = [conn EXCEPT ![c] = [@ EXCEPT !.pc = "ended", !.token = token,
                                            !.at = now,
                                            !.close_code = POLICY_VIOLATION]]
       ELSE conn' = [conn EXCEPT ![c] = [@ EXCEPT !.pc = "accepted", !.token = token,
                                            !.at = now, !.accepted = TRUE]]
    /\ UNCHANGED <<active_connections, store, nextId, last, now>>
    /\ UNCHANGED <<users, nextUserId, reg, issued, authLast, bcast, mongo>>

\* manager.connect after accept(): the connection is appended.
ws_append(c) ==
    /\ conn[c].pc = "accepted"
    /\ active_connections' = Append(active_connections, c)
    /\ conn' = [conn EXCEPT ![c].pc = "welcome"]
    /\ UNCHANGED <<store, nextId, last, now>>
    /\ UNCHANGED <<users, nextUserId, reg, issued, authLast, bcast, mongo>>

\* The welcome message is sent.
ws_welcome(c) ==
    /\ conn[c].pc = "welcome"
    /\ conn' = [conn EXCEPT ![c].pc = "listen", ![c].sent = Append(@, Connected)]
    /\ UNCHANGED <<active_connections, store, nextId, last, now>>
    /\ UNCHANGED <<users, nextUserId, reg, issued, authLast, bcast, mongo>>

\* receive_text() returns a text of the client.
ws_receive(c, data) ==
    /\ conn[c].pc = "listen"
    /\ Len(conn[c].received) < MaxTexts
    /\ conn' = [conn EXCEPT ![c].pc = "echo", ![c].received = Append(@, data)]
    /\ UNCHANGED <<active_connections, store, nextId, last, now>>
    /\ UNCHANGED <<users, nextUserId, reg, issued, authLast, bcast, mongo>>

\* The echo of the text just received is sent.
ws_echo(c) ==
    /\ conn[c].pc = "echo"
    /\ conn' = [conn EXCEPT ![c].pc = "listen",
                            ![c].sent = Append(@, Echo(conn[c].received[Len(conn[c].received)]))]
    /\ UNCHANGED <<active_connections, store, nextId, last, now>>
    /\ UNCHANGED <<users, nextUserId, reg, issued, authLast, bcast, mongo>>

\* A send or receive_text raises WebSocketDisconnect: manager.disconnect.
ws_disconnect(c) ==
    /\ conn[c].pc \in {"welcome", "listen", "echo"}
    /\ conn' = [conn EXCEPT ![c].pc = "ended"]
    /\ active_connections' = Disconnect(active_connections, c)
    /\ UNCHANGED <<store, nextId, last, now>>
    /\ UNCHANGED <<users, nextUserId, reg, issued, authLast, bcast, mongo>>

\* A send or receive_text raises another exception (receive_text on a
\* binary frame, a send on a broken transport): it leaves the handler, which
\* catches WebSocketDisconnect alone.
ws_failure(c) ==
    /\ conn[c].pc \in {"welcome", "listen", "echo"}
    /\ conn' = [conn EXCEPT ![c].pc = "ended"]
    /\ UNCHANGED <<active_connections, store, nextId, last, now>>
    /\ UNCHANGED <<users, nextUserId, reg, issued, authLast, bcast, mongo>>

\* manager.broadcast: where the call is, the index its list iterator holds,
\* the connections it has called send_text on, and the registry as it was
\* when the call began.
NoBroadcast == [pc |-> "idle", idx |-> 0, attempted |-> <<>>, start |-> <<>>]

\* One turn of `for connection in self.active_connections`: the iterator
\* yields the element at its index in the list as the list is now and moves
\* on, or ends the loop when the index is past the end; the element is sent
\* to, and `except: pass` drops a failure of the send.
BroadcastTurn(b) ==
    IF b.idx < Len(active_connections)
    THEN [b EXCEPT !.pc = "sending", !.idx = @ + 1,
                   !.attempted = Append(@, active_connections[b.idx + 1])]
    ELSE [b EXCEPT !.pc = "done"]

\* broadcast is called, up to its first await.
broadcast ==
    /\ bcast.pc = "idle"
    /\ bcast' = BroadcastTurn([bcast EXCEPT !.start = active_connections])
    /\ UNCHANGED <<conn, active_connections, store, nextId, last, now>>
    /\ UNCHANGED <<users, nextUserId, reg, issued, authLast, mongo>>

\* The awaited send_text returns or raises, and the loop goes on.
broadcast_resume ==
    /\ bcast.pc = "sending"
    /\ bcast' = BroadcastTurn(bcast)
    /\ UNCHANGED <<conn, active_connections, store, nextId, last, now>>
    /\ UNCHANGED <<users, nextUserId, reg, issued, authLast, mongo>>

---------------------------------------------------------------------------
(* database/mongodb.py *)

\* None, for _client and _db; clients are numbered from 1, and a database
\* handle is written as the number of the client it was taken from.
None == 0

\* The module after import: _client and _db are None.  `made` counts the
\* clients created, `open` holds those not closed, `since_close` counts the
\* clients created since the last close, and `ret` is the last call and
\* what it returned.
NoMongo ==
    [client |-> None, db |-> None, made |-> 0, open |-> {}, since_close |-> 0,
     ret |-> [op |-> "none", value |-> None]]

\* get_mongodb_client on a module state: the state afterwards.
GetMongodbClient(m) ==
    IF m.client = None
    THEN [m EXCEPT !.client = m.made + 1, !.made = @ + 1,
                   !.open = @ \cup {m.made + 1}, !.since_close = @ + 1]
    ELSE m

\* get_mongodb_db on a module state: _db is made from the client when it
\* is None, and returned as it is otherwise.
GetMongodbDb(m) ==
    IF m.db = None
    THEN LET withClient == GetMongodbClient(m)
         IN  [withClient EXCEPT !.db = withClient.client]
    ELSE m

\* close_mongodb_connection on a module state: the client is closed and
\* _client set to None; _db is not assigned.
CloseMongodbConnection(m) ==
    IF m.client # None
    THEN [m EXCEPT !.open = @ \ {m.client}, !.client = None, !.since_close = 0]
    ELSE m

get_mongodb_client ==
    /\ mongo.client = None => mongo.made < MaxClients
    /\ LET m == GetMongodbClient(mongo)
       IN  mongo' = [m EXCEPT !.ret = [op |-> "client", value |-> m.client]]
    /\ UNCHANGED <<store, nextId, now, last, wsVars>>
    /\ UNCHANGED <<users, nextUserId, reg, issued, authLast>>

get_mongodb_db ==
    /\ (mongo.db = None /\ mongo.client = None) => mongo.made < MaxClients
    /\ LET m == GetMongodbDb(mongo)
       IN  mongo' = [m EXCEPT !.ret = [op |-> "db", value |-> m.db]]
    /\ UNCHANGED <<store, nextId, now, last, wsVars>>
    /\ UNCHANGED <<users, nextUserId, reg, issued, authLast>>

close_mongodb_connection ==
    /\ mongo' = [CloseMongodbConnection(mongo) EXCEPT
                    !.ret = [op |-> "close", value |-> None]]
    /\ UNCHANGED <<store, nextId, now, last, wsVars>>
    /\ UNCHANGED <<users, nextUserId, reg, issued, authLast>>

---------------------------------------------------------------------------
(* Specifications *)

Init ==
    /\ store = {}
    /\ nextId = 1
    /\ now = 0
    /\ last = Response("none", NoRole, 0, NoReq, NoBody)
    /\ users = {}
    /\ nextUserId = 1
    /\ reg = [w \in Workers |-> Idle]
    /\ issued = {}
    /\ authLast = AuthResponse("none", NoReq, 0, "", NoBody)
    /\ conn = [c \in Connections |-> NewConnection]
    /\ active_connections = <<>>
    /\ bcast = NoBroadcast
    /\ mongo = NoMongo

\* Batch imports by an editor.
NextBatch ==
    \E entries \in SentBatches, v \in BOOLEAN, fault \in Faults :
        create_chart_entries_batch("editor", entries, v, fault)

SpecBatch == Init /\ [][NextBatch]_vars

\* Every endpoint that writes to the chart store, by every role.
RoleUpdateBodies == {body \in UpdateBodies : "rank" \in DOMAIN body.fields}
RoleFeeds == {FeedDown, [outcome |-> "ok", songs |-> <<TRUE>>]}
NextRoles ==
    \/ \E role \in Roles, body \in {ExtendedBody, MalformedBody} :
        create_chart_entry(role, body)
    \/ \E role \in Roles, entries \in [1..1 -> {ExtendedBody, BadPlatformDataBody}] :
        create_chart_entries_batch(role, entries, TRUE, NoFault)
    \/ \E role \in Roles, id \in {MalformedId, 1}, body \in RoleUpdateBodies :
        update_chart_entry(role, id, body)
    \/ \E role \in Roles, id \in {MalformedId, 1, MaxId} : delete_chart_entry(role, id)
    \/ \E role \in Roles, days_back \in {0, MaxDaysBack}, feed \in RoleFeeds :
        fetch_itunes(role, "us", FeedLimit, days_back, feed)
    \/ \E role \in Roles, feed \in RoleFeeds : fetch_all_sources(role, "US", feed)

SpecRoles == Init /\ [][NextRoles]_vars

\* Queries over a store filled by single creates.
QueryBodies == {e \in PlainBodies : e.rank = 1 \/ e.date = Today}
NextQuery ==
    \/ \E body \in QueryBodies : create_chart_entry("editor", body)
    \/ \E role \in {"viewer"}, q \in QueryParams :
        \E entries \in GetEntriesDirect(store, q) : get_charts(role, q, entries)

SpecQuery == Init /\ [][NextQuery]_vars

\* Registrations in flight at two workers.
NextRegister ==
    \/ \E w \in Workers, user_create \in UserCreates : register_arrive(w, user_create)
    \/ \E w \in Workers : register_check_username(w)
    \/ \E w \in Workers : register_check_email(w)
    \/ \E w \in Workers : register_commit(w)

SpecRegister == Init /\ [][NextRegister]_vars

\* Login and refresh over registered users, as time passes.
TokenUsers ==
    {[username |-> "alice", email |-> "a@x.org", password |-> "password1",
      role |-> "viewer"],
     [username |-> "bob", email |-> "b@x.org", password |-> "password1",
      role |-> "admin"]}

NextToken ==
    \/ \E user_create \in TokenUsers : register(user_create)
    \/ \E flag \in BOOLEAN : set_active("alice", flag)
    \/ \E username \in Usernames, password \in Passwords : login(username, password)
    \/ \E token \in Presentable : refresh_token(token)
    \/ Tick

SpecToken == Init /\ [][NextToken]_vars

\* Trend analyses over given stores.
InitTrend ==
    /\ store \in TrendStores
    /\ nextId = 1
    /\ now = 0
    /\ last = Response("none", NoRole, 0, NoReq, NoBody)
    /\ users = {}
    /\ nextUserId = 1
    /\ reg = [w \in Workers |-> Idle]
    /\ issued = {}
    /\ authLast = AuthResponse("none", NoReq, 0, "", NoBody)
    /\ conn = [c \in Connections |-> NewConnection]
    /\ active_connections = <<>>
    /\ bcast = NoBroadcast
    /\ mongo = NoMongo

NextTrend ==
    \E days \in {1, 3}, source \in {NoText, APPLE_MUSIC}, min_appearances \in 1..3 :
        \E trends \in GetTrendAnalysis(store, days, source, min_appearances) :
            get_top_artists("viewer", days, source, min_appearances, trends)

SpecTrend == InitTrend /\ [][NextTrend]_vars

\* Creates, partial updates and deletes of single entries, as time passes.
EditBodies == {EntryBody(1, 1, "US", NoPlatformData), ExtendedBody}
EditUpdateBodies ==
    {body \in UpdateBodies : "country" \notin DOMAIN body.fields /\ body.platform_data.isDict}
        \cup {[fields |-> EmptyDict,
               platform_data |-> [isDict |-> TRUE, items |-> [genre |-> "pop"]]]}
UnknownId == MaxId + 1
NextEdit ==
    \/ \E body \in EditBodies : create_chart_entry("editor", body)
    \/ \E id \in {MalformedId, 1, UnknownId}, body \in EditUpdateBodies :
        update_chart_entry("editor", id, body)
    \/ \E id \in {MalformedId, 1, MaxId} : delete_chart_entry("admin", id)
    \/ Later

SpecEdit == Init /\ [][NextEdit]_vars

\* Top charts and artist histories over a store filled by single creates.
NextRead ==
    \/ \E body \in PlainBodies : create_chart_entry("editor", body)
    \/ \E q \in TopQueries :
        \E entries \in GetTopCharts(store, q) : get_top_charts("viewer", q, entries)
    \/ \E artist_name \in {<<"a">>, <<"b">>}, date_from \in {NoDate} \cup Dates,
            date_to \in {NoDate} \cup Dates :
        \E entries \in GetArtistHistory(store, artist_name,
                        IF date_from # NoDate THEN Combine(date_from, MinTime)
                        ELSE NoDateTime,
                        IF date_to # NoDate THEN Combine(date_to, MaxTime)
                        ELSE NoDateTime) :
            get_artist_history("viewer", artist_name, date_from, date_to, entries)

SpecRead == Init /\ [][NextRead]_vars

\* Calls of the feed adapter, and syncs by an editor.
NextFeed ==
    \/ \E feed \in FeedResponses, limit \in {1, FeedLimit} :
        fetch_itunes_top_songs(feed, "us", limit)
    \/ \E feed \in FeedResponses, limit \in {1, FeedLimit} :
        fetch_itunes("editor", "us", limit, 0, feed)
    \/ \E feed \in FeedResponses, days_back \in 1..MaxDaysBack :
        fetch_itunes("editor", "us", FeedLimit, days_back, feed)
    \/ \E feed \in FeedResponses : fetch_all_sources("editor", "US", feed)

SpecFeed == Init /\ [][NextFeed]_vars

\* WebSocket connections presenting tokens of a user, as time passes.
WsUser == [id |-> 1, username |-> "alice", role |-> "viewer"]
WsTokens ==
    LET tokens == create_tokens(WsUser, 0)
    IN  {tokens.access_token, tokens.refresh_token, MalformedToken,
         [tokens.refresh_token EXCEPT !.payload = DictUpdate(@, [type |-> "access"])]}

NextWs ==
    \/ \E c \in Connections, token \in WsTokens : websocket_endpoint(c, token)
    \/ \E c \in Connections : ws_append(c)
    \/ \E c \in Connections : ws_welcome(c)
    \/ \E c \in Connections, data \in Texts : ws_receive(c, data)
    \/ \E c \in Connections : ws_echo(c)
    \/ \E c \in Connections : ws_disconnect(c)
    \/ \E c \in Connections : ws_failure(c)
    \/ broadcast
    \/ broadcast_resume
    \/ Tick /\ now' = ACCESS_TOKEN_EXPIRE_MINUTES + 1

SpecWs == Init /\ [][NextWs]_vars

\* Creates and updates with the ranks the schemas accept (rank: int), and
\* trend analyses over the result.
SentRanks == {-1, 0, 1}
NextRank ==
    \/ \E r \in SentRanks :
        create_chart_entry("editor", EntryBody(Today, r, "US", NoPlatformData))
    \/ \E id \in EntryIds, r \in SentRanks :
        update_chart_entry("editor", id,
            [fields |-> [rank |-> r], platform_data |-> NoPlatformData])
    \/ \E days \in {1, 3}, source \in {NoText, APPLE_MUSIC}, min_appearances \in 1..2 :
        \E trends \in GetTrendAnalysis(store, days, source, min_appearances) :
            get_top_artists("viewer", days, source, min_appearances, trends)

SpecRank == Init /\ [][NextRank]_vars

\* Calls of the three functions of database/mongodb.py, and creates of
\* chart entries.
NextMongo ==
    \/ get_mongodb_client
    \/ get_mongodb_db
    \/ close_mongodb_connection
    \/ \E rank \in 1..2 :
        create_chart_entry("editor", EntryBody(1, rank, "US", NoPlatformData))

SpecMongo == Init /\ [][NextMongo]_vars

---------------------------------------------------------------------------
(* Batch import *)

\* The identity tuple of a submitted entry, as the store would hold it.
CandidateIdentity(entry) ==
    <<IsoFormat(entry.date), entry.rank, entry.source, entry.country>>

Unconvertible(entries) ==
    {i \in 1..Len(entries) : ~entries[i].platform_data.isDict}

DuplicatesIn(coll, entries) ==
    {i \in 1..Len(entries) :
        \E doc \in coll : Identity(doc) = CandidateIdentity(entries[i])}

\* C1: create_batch on any store the service reaches, the bulk insert going
\* through.  With validate_duplicates every candidate whose identity tuple is
\* that of a stored entry is counted in skipped, not in imported, and no
\* document of its tuple is added; without it every convertible candidate is
\* added and counted in imported.
C1_DuplicatesSkippedOrImported ==
    \A entries \in Batches, v \in BOOLEAN :
        LET out == BatchRequest(store, "editor", entries, v, now, nextId, NoFault)
            added == out.coll \ store
            dups == DuplicatesIn(store, entries)
            bad == Unconvertible(entries)
        IN  out.status = HTTP_201 =>
            /\ store \subseteq out.coll
            /\ Cardinality(added) = out.body.imported
            /\ IF v
               THEN /\ out.body.skipped = Cardinality(dups \cup bad)
                    /\ out.body.imported = Len(entries) - Cardinality(dups \cup bad)
                    /\ \A i \in dups :
                        \A doc \in added : Identity(doc) # CandidateIdentity(entries[i])
               ELSE /\ out.body.imported = Len(entries) - Cardinality(bad)
                    /\ out.body.skipped = Cardinality(bad)
                    /\ \A i \in (1..Len(entries)) \ bad :
                        \E doc \in added : Identity(doc) = CandidateIdentity(entries[i])

\* A batch with validate_duplicates has skipped one entry as a duplicate and
\* imported another.
C1_Witness ==
    /\ last.op = "batch" /\ last.status = HTTP_201
    /\ last.req.validate_duplicates
    /\ last.req.size = 2 /\ last.req.unconvertible = 0
    /\ last.body.skipped = 1 /\ last.body.imported = 1

PairwiseDistinct(entries) ==
    \A i, j \in 1..Len(entries) :
        i # j => CandidateIdentity(entries[i]) # CandidateIdentity(entries[j])

\* C2: on any store the service reaches, a batch of pairwise distinct tuples
\* that is submitted (with either flag) and submitted again with
\* validate_duplicates gets imported = 0 and skipped = its size from the
\* second call, which leaves the stored entries as the first call left them.
C2_ResubmitIdempotent ==
    \A entries \in Batches, v \in BOOLEAN :
        LET first == BatchRequest(store, "editor", entries, v, now, nextId, NoFault)
            second == BatchRequest(first.coll, "editor", entries, TRUE, now,
                                   nextId + first.ids, NoFault)
        IN  (first.status = HTTP_201 /\ PairwiseDistinct(entries)) =>
            /\ second.status = HTTP_201
            /\ second.body.imported = 0
            /\ second.body.skipped = Len(entries)
            /\ second.coll = first.coll

\* A batch of two has been submitted again: both entries are in the store and
\* the call skipped both as duplicates.
C2_Witness ==
    /\ last.op = "batch" /\ last.status = HTTP_201
    /\ last.req.validate_duplicates
    /\ last.req.size = 2 /\ last.req.unconvertible = 0
    /\ last.body.imported = 0 /\ last.body.skipped = 2
    /\ Cardinality(store) = 2

\* C3: a batch request of at most 1000 entries by an editor or admin gets the
\* normal batch response whatever its entries are, with one message in
\* errors for each entry that is malformed or fails conversion.
C3_BadEntryDoesNotFailRequest ==
    (last.op = "batch" /\ last.role \in CreateBatchRoles
        /\ last.req.size <= BatchLimit) =>
    /\ last.status = HTTP_201
    /\ Len(last.body.errors) = last.req.malformed + last.req.unconvertible

---------------------------------------------------------------------------
(* Registration *)

Conflict(response) ==
    /\ response.status = HTTP_400
    /\ response.detail \in {"Username already registered", "Email already registered"}

\* C4: a registration whose username, or whose email, was that of an existing
\* user when it arrived is answered with the Conflict error, and the step
\* that answers it leaves the users table as it was.
C4_DuplicateRegistrationConflicts ==
    [][\A w \in Workers :
        (reg[w].pc # "idle" /\ reg'[w].pc = "idle"
            /\ (reg[w].username_taken \/ reg[w].email_taken))
        => /\ authLast'.op = "register"
           /\ authLast'.req.req = reg[w].req
           /\ Conflict(authLast')
           /\ users' = users]_vars

\* A registration of a new username with the email of an existing user has
\* been refused.
C4_Witness ==
    /\ authLast.op = "register"
    /\ authLast.req.email_taken /\ ~authLast.req.username_taken
    /\ authLast.status = HTTP_400
    /\ authLast.detail = "Email already registered"
    /\ \E u \in users : u.email = authLast.req.req.email
                        /\ u.username # authLast.req.req.username

\* C5: no two users share a username and no two share an email, whatever the
\* interleaving of the registrations in progress.
C5_UsernamesAndEmailsUnique ==
    \A u1, u2 \in users :
        (u1.username = u2.username \/ u1.email = u2.email) => u1 = u2

\* Two registrations of one username had both passed the checks; one is
\* committed and the commit of the other has been refused.
C5_Witness ==
    /\ authLast.op = "register"
    /\ authLast.status = HTTP_500
    /\ ~authLast.req.username_taken /\ ~authLast.req.email_taken
    /\ \E u \in users : u.username = authLast.req.req.username

---------------------------------------------------------------------------
(* Tokens *)

AccessExpiry(pair) == pair.at + ACCESS_TOKEN_EXPIRE_MINUTES
RefreshExpiry(pair) == pair.at + REFRESH_TOKEN_EXPIRE_DAYS * MinutesPerDay

\* C6: a token handed out is accepted by the decoder before its configured
\* expiry (30 minutes for access, 7 days for refresh) and rejected after it,
\* and every altered copy of it is rejected.
C6_TokensExpireAndResistTampering ==
    \A pair \in issued :
        LET access == pair.tokens.access_token
            refresh == pair.tokens.refresh_token
        IN  /\ now < AccessExpiry(pair) => decode_token(access, now).valid
            /\ now > AccessExpiry(pair) => ~decode_token(access, now).valid
            /\ now < RefreshExpiry(pair) => decode_token(refresh, now).valid
            /\ now > RefreshExpiry(pair) => ~decode_token(refresh, now).valid
            /\ \A forged \in Tampered(access) \cup Tampered(refresh) :
                    ~decode_token(forged, now).valid

\* A pair is out, its access token past expiry and its refresh token not.
C6_Witness ==
    \E pair \in issued :
        /\ now > AccessExpiry(pair) /\ now < RefreshExpiry(pair)
        /\ ~decode_token(pair.tokens.access_token, now).valid
        /\ decode_token(pair.tokens.refresh_token, now).valid

InvalidToken(response) ==
    /\ response.status = HTTP_401
    /\ response.detail = "Invalid refresh token"
    /\ response.body = NoBody

\* C7: a refresh fails with InvalidToken, handing out nothing, when the token
\* cannot be decoded, is not of type refresh, names no user or names an
\* inactive user; any other refresh returns a new access and refresh token
\* for the user the token names.
C7_RefreshOutcomes ==
    [][(authLast' # authLast /\ authLast'.op = "refresh") =>
        LET decoded == decode_token(authLast'.req, now)
            sub == Get(decoded.payload, "sub")
            named == {u \in users : u.username = sub}
            fresh == authLast'.body
        IN  IF \/ ~decoded.valid
               \/ Get(decoded.payload, "type") # "refresh"
               \/ named = {}
               \/ \E u \in named : ~u.is_active
            THEN InvalidToken(authLast') /\ issued' = issued
            ELSE /\ authLast'.status = HTTP_200
                 /\ decode_token(fresh.access_token, now).valid
                 /\ fresh.access_token.payload.type = "access"
                 /\ fresh.access_token.payload.sub = sub
                 /\ fresh.access_token.payload.exp = now + ACCESS_TOKEN_EXPIRE_MINUTES
                 /\ decode_token(fresh.refresh_token, now).valid
                 /\ fresh.refresh_token.payload.type = "refresh"
                 /\ fresh.refresh_token.payload.sub = sub
                 /\ fresh.refresh_token.payload.exp
                        = now + REFRESH_TOKEN_EXPIRE_DAYS * MinutesPerDay
                 /\ issued' = issued \cup {[tokens |-> fresh, at |-> now, sub |-> sub]}
       ]_vars

\* An access token that is still valid was presented as a refresh token and
\* refused.
C7_Witness ==
    /\ authLast.op = "refresh"
    /\ InvalidToken(authLast)
    /\ decode_token(authLast.req, now).valid
    /\ Get(authLast.req.payload, "type") = "access"

\* C8: a login fails with InvalidCredentials when the username is unknown or
\* the password does not match, and with AccountInactive when the password
\* matches and the user is inactive, the users table staying as it was; any
\* other login sets the last-login time of that user to now and changes
\* nothing else in the table.
C8_AuthenticateOutcomes ==
    [][(authLast' # authLast /\ authLast'.op = "login") =>
        LET named == {u \in users : u.username = authLast'.req.username}
            matching == {u \in named :
                            u.hashed_password = get_password_hash(authLast'.req.password)}
        IN  IF matching = {}
            THEN /\ authLast'.status = HTTP_401
                 /\ authLast'.detail = "Incorrect username or password"
                 /\ users' = users
            ELSE IF \E u \in matching : ~u.is_active
            THEN /\ authLast'.status = HTTP_403
                 /\ authLast'.detail = "User account is inactive"
                 /\ users' = users
            ELSE /\ authLast'.status = HTTP_200
                 /\ users' = {IF u \in matching THEN [u EXCEPT !.last_login = now]
                              ELSE u : u \in users}
       ]_vars

\* A user who had logged in was made inactive, and the next login with the
\* right password has been refused.
C8_Witness ==
    /\ authLast.op = "login"
    /\ authLast.status = HTTP_403
    /\ \E u \in users : /\ u.username = authLast.req.username
                        /\ ~u.is_active
                        /\ u.last_login # NeverLoggedIn
                        /\ u.last_login < now

---------------------------------------------------------------------------
(* Roles *)

WriteOps == {"create", "batch", "update", "delete", "fetch_itunes", "fetch_all"}

\* C9: a request made as viewer never changes the chart store, and every
\* write it attempts is refused with Forbidden; a request made as editor
\* never removes an entry, and a delete it attempts is refused with Forbidden.
C9_RoleGates ==
    [][/\ last'.role = "viewer" =>
            /\ store' = store
            /\ last'.op \in WriteOps => last'.status = HTTP_403
       /\ last'.role = "editor" =>
            /\ \A doc \in store : \E kept \in store' : kept["_id"] = doc["_id"]
            /\ last'.op = "delete" => last'.status = HTTP_403
      ]_vars

\* An editor's delete has been refused with entries in the store.
C9_Witness ==
    /\ last.op = "delete" /\ last.role = "editor"
    /\ last.status = HTTP_403
    /\ store # {}

---------------------------------------------------------------------------
(* Query *)

\* a comes no later than b in the order date descending, then rank ascending.
DateDescRankAsc(a, b) ==
    \/ a.date > b.date
    \/ a.date = b.date /\ a.rank <= b.rank

\* C10: the list a query returns is the slice [offset, offset + limit) of the
\* matching entries ordered by date descending, then rank ascending.
C10_QueryOrderedByDateThenRank ==
    last.op = "query" =>
        \E cursor \in Orderings({doc \in store : MatchesFilter(doc, last.req)}) :
            /\ \A i, j \in 1..Len(cursor) :
                    i < j => DateDescRankAsc(ToResponse(cursor[i]), ToResponse(cursor[j]))
            /\ LET page == SkipLimit(cursor, last.req.offset, last.req.limit)
               IN  last.body.entries = [i \in 1..Len(page) |-> ToResponse(page[i])]


\* C11: a query with an exact date and a range returns what the same query
\* returns without the range, and only entries of that date, whether or not
\* the date lies in the range.
C11_ExactDateOverridesRange ==
    \A q \in QueryParams :
        q.filter_date # NoDate =>
            LET alone == [q EXCEPT !.date_from = NoDate, !.date_to = NoDate]
            IN  /\ GetEntriesDirect(store, q) = GetEntriesDirect(store, alone)
                /\ \A entries \in GetEntriesDirect(store, q) :
                        \A i \in 1..Len(entries) : entries[i].date = q.filter_date

\* A query for a date outside the range given with it has returned an entry.
C11_Witness ==
    /\ last.op = "query"
    /\ last.req.filter_date = Today
    /\ last.req.date_from = 1 /\ last.req.date_to = 1
    /\ last.body.entries # <<>>
    /\ \A i \in 1..Len(last.body.entries) : last.body.entries[i].date = Today


---------------------------------------------------------------------------
(* Trend analysis *)

\* The entries of the window of an analysis, by date and source.
InWindow(q) ==
    {doc \in store : /\ FromIsoFormat(doc.date) >= Today - q.days
                     /\ q.source # NoText => doc.source = q.source}
Appearances(q, artist) == {doc \in InWindow(q) : doc.artist = artist}
Qualifying(q) ==
    {artist \in {doc.artist : doc \in InWindow(q)} :
        Cardinality(Appearances(q, artist)) >= q.min_appearances}

\* C12: a trend analysis returns no artist with fewer than min_appearances
\* entries in the window and none twice; the artists are in order of
\* appearance count descending and, for equal counts, mean rank ascending;
\* and it returns the first 50 of the qualifying artists, or all of them if
\* they are fewer.
C12_TrendAnalysisFiltersOrdersCaps ==
    last.op = "trends" =>
        LET q == last.req
            r == last.body.trends
            count(i) == Cardinality(Appearances(q, r[i].artist))
            total(i) == SumRanks(Appearances(q, r[i].artist))
        IN  /\ \A i \in 1..Len(r) :
                    /\ r[i].artist \in Qualifying(q)
                    /\ r[i].total_appearances = count(i)
            /\ \A i, j \in 1..Len(r) : i # j => r[i].artist # r[j].artist
            /\ \A i, j \in 1..Len(r) :
                    i < j => \/ count(i) > count(j)
                             \/ /\ count(i) = count(j)
                                /\ total(i) * count(j) <= total(j) * count(i)
            /\ Len(r) <= 50
            /\ Len(r) = IF Cardinality(Qualifying(q)) < 50
                        THEN Cardinality(Qualifying(q)) ELSE 50
            /\ \A artist \in Qualifying(q) :
                    (\A i \in 1..Len(r) : r[i].artist # artist) =>
                        \A i \in 1..Len(r) :
                            LET n == Cardinality(Appearances(q, artist))
                                s == SumRanks(Appearances(q, artist))
                            IN  \/ count(i) > n
                                \/ count(i) = n /\ total(i) * n <= s * count(i)

\* An analysis has left out an artist that appears in the window fewer than
\* min_appearances times and returned two artists of equal count in order of
\* mean rank.
C12_Witness ==
    /\ last.op = "trends"
    /\ \E doc \in InWindow(last.req) : doc.artist \notin Qualifying(last.req)
    /\ Len(last.body.trends) = 2
    /\ last.body.trends[1].total_appearances = last.body.trends[2].total_appearances
    /\ last.body.trends[1].rank_sum < last.body.trends[2].rank_sum


---------------------------------------------------------------------------
(* Partial update *)

\* The body of an update supplies nothing: no scalar field and no extension
\* data.
SuppliesNothing(update) ==
    DOMAIN update.fields = {} /\ DOMAIN update.platform_data.items = {}
        /\ update.platform_data.isDict

\* The step is an update of an entry by a caller allowed to update.
UpdateStep ==
    now' = now /\ last'.op = "update" /\ last'.role \in UpdateEntryRoles

\* C13: an update that supplies no scalar field and no extension data is
\* answered as not found, for the id of a stored entry as for any other id,
\* and leaves the store as it was, updated_at of the entry included.
C13_EmptyUpdateNotFound ==
    [][UpdateStep /\ SuppliesNothing(last'.req.update) =>
            /\ last'.status = HTTP_404
            /\ store' = store]_vars

\* An empty update of a stored entry, later than the entry's last
\* modification, was answered as not found.
C13_Witness ==
    /\ last.op = "update" /\ last.status = HTTP_404
    /\ SuppliesNothing(last.req.update)
    /\ \E doc \in store : doc["_id"] = last.req.entry_id /\ doc.updated_at < now


\* The nested platform_data document of a stored entry, empty when absent.
Nested(doc) ==
    IF "platform_data" \in DOMAIN doc THEN doc["platform_data"] ELSE EmptyDict

\* C14: an update that supplies something, of a stored entry, sets exactly
\* the supplied scalar fields, sets each supplied extension key inside the
\* entry's platform_data document, stamps updated_at, and leaves every
\* other field of the entry (date, created_at, the other scalars, the other
\* extension keys) and every other entry as they were.
C14_UpdateWritesOnlySupplied ==
    [][UpdateStep /\ last'.status = HTTP_200 =>
        LET update == last'.req.update
            fields == update.fields
            items == update.platform_data.items
            old == CHOOSE doc \in store : doc["_id"] = last'.req.entry_id
        IN  /\ ~SuppliesNothing(update)
            /\ \E doc \in store : doc["_id"] = last'.req.entry_id
            /\ \E new \in store' :
                /\ new["_id"] = old["_id"]
                /\ store' \ {new} = store \ {old}
                /\ DOMAIN new = DOMAIN old \cup DOMAIN fields
                        \cup (IF DOMAIN items = {} THEN {} ELSE {"platform_data"})
                /\ \A k \in DOMAIN fields : new[k] = fields[k]
                /\ new.updated_at = now
                /\ \A k \in DOMAIN old \ (DOMAIN fields \cup {"updated_at", "platform_data"}) :
                        new[k] = old[k]
                /\ DOMAIN Nested(new) = DOMAIN Nested(old) \cup DOMAIN items
                /\ \A k \in DOMAIN items : Nested(new)[k] = items[k]
                /\ \A k \in DOMAIN Nested(old) \ DOMAIN items :
                        Nested(new)[k] = Nested(old)[k]]_vars

\* An entry created with an extension field has been updated, later than
\* its creation, first with one extension key and then with another, and a
\* second entry is stored.
C14_Witness ==
    /\ last.op = "update" /\ last.status = HTTP_200
    /\ DOMAIN last.req.update.platform_data.items = {"genre"}
    /\ \E doc \in store :
        /\ doc["_id"] = last.req.entry_id
        /\ "itunes_id" \in DOMAIN doc
        /\ DOMAIN Nested(doc) = {"itunes_id", "genre"}
        /\ doc.created_at < doc.updated_at /\ doc.updated_at = now
    /\ Cardinality(store) = 2


---------------------------------------------------------------------------
(* Delete *)

\* The step is a delete by a caller allowed to delete.
DeleteStep ==
    now' = now /\ last'.op = "delete" /\ last'.role \in DeleteEntryRoles

\* C18: a delete succeeds exactly when an entry with the id was stored, and
\* then removes that entry and no other; with the id of no stored entry (one
\* deleted before, an unknown one, a malformed one) it is answered as not
\* found, without an error, and leaves the store as it was.
C18_DeleteIdempotent ==
    [][DeleteStep =>
        LET hit == {doc \in store : doc["_id"] = last'.req.entry_id}
        IN  /\ last'.status \in {HTTP_204, HTTP_404}
            /\ last'.status = HTTP_204 <=> hit # {}
            /\ store' = store \ hit
            /\ Cardinality(hit) <= 1
            /\ \A doc \in store' : doc["_id"] # last'.req.entry_id]_vars

\* The entry of an id has been deleted and a second delete of the id was
\* answered as not found, with another entry still stored.
C18_Witness ==
    /\ last.op = "delete" /\ last.status = HTTP_404
    /\ last.req.entry_id = 1 /\ nextId > 1
    /\ store # {}


---------------------------------------------------------------------------
(* Top charts *)

\* The stored entries of the date of a query that pass its optional filters.
TopMatching(q) ==
    {doc \in store : /\ FromIsoFormat(doc.date) = q.date
                     /\ q.source # NoText => doc.source = q.source
                     /\ q.country # NoText => doc.country = q.country}

\* C15: the top charts of a date hold min(limit, n) entries, n being the
\* number of stored entries of the date that pass the optional filters; the
\* entries are stored matching entries, each once, in ascending order of
\* rank, and no matching entry left out has a smaller rank than one returned.
C15_TopIsTheLowestRanksInOrder ==
    \A q \in TopQueries :
        \A entries \in GetTopCharts(store, q) :
            LET n == Cardinality(TopMatching(q))
                ids == {entries[i].id : i \in 1..Len(entries)}
            IN  /\ Len(entries) = IF q.limit < n THEN q.limit ELSE n
                /\ \A i \in 1..Len(entries) :
                        \E doc \in TopMatching(q) :
                            /\ doc["_id"] = entries[i].id
                            /\ doc.rank = entries[i].rank
                /\ Cardinality(ids) = Len(entries)
                /\ \A i, j \in 1..Len(entries) :
                        i < j => entries[i].rank <= entries[j].rank
                /\ \A doc \in TopMatching(q) :
                        doc["_id"] \notin ids =>
                            \A i \in 1..Len(entries) : entries[i].rank <= doc.rank

\* A top-charts request with limit 1 returned the entry of rank 1 of a date
\* for which an entry of rank 2, stored earlier, matches as well.
C15_Witness ==
    /\ last.op = "top" /\ last.req.limit = 1
    /\ Len(last.body.entries) = 1 /\ last.body.entries[1].rank = 1
    /\ \E doc \in TopMatching(last.req) :
            doc.rank = 2 /\ doc["_id"] < last.body.entries[1].id


---------------------------------------------------------------------------
(* Artist history *)

\* The stored entries of an artist-history request: the artist contains the
\* text, letter case ignored, and the date is within the bounds given, the
\* bounds included.
HistoryMatching(req) ==
    {doc \in store :
        /\ RegexMatchI(req.artist_name, doc.artist)
        /\ req.date_from # NoDate => req.date_from <= FromIsoFormat(doc.date)
        /\ req.date_to # NoDate => FromIsoFormat(doc.date) <= req.date_to}

\* C19: an artist history holds exactly the stored entries whose artist
\* contains the text, letter case ignored, and whose date is from date_from
\* to date_to, both included, for each bound given; they are in order of
\* date descending, then rank ascending.
C19_ArtistHistoryBoundsInclusiveAndOrdered ==
    last.op = "history" =>
        /\ {last.body.entries[i].id : i \in 1..Len(last.body.entries)}
                = {doc["_id"] : doc \in HistoryMatching(last.req)}
        /\ Len(last.body.entries) = Cardinality(HistoryMatching(last.req))
        /\ \A i, j \in 1..Len(last.body.entries) :
                i < j => DateDescRankAsc(last.body.entries[i], last.body.entries[j])


---------------------------------------------------------------------------
(* Sync *)

\* The step is a sync request by a caller allowed to sync.
SyncStep ==
    /\ now' = now
    /\ \/ last'.op = "fetch_itunes" /\ last'.role \in FetchItunesRoles
       \/ last'.op = "fetch_all" /\ last'.role \in FetchAllRoles

\* C16: when the feed adapter returns no entries, a sync endpoint answers
\* 503 (service unavailable), not 500, and the store is left as it was.
C16_EmptyFeedIsServiceUnavailable ==
    [][SyncStep /\ last'.req.fetched = 0 =>
            /\ last'.status = HTTP_503
            /\ store' = store]_vars


---------------------------------------------------------------------------
(* Feed adapter *)

\* The positions of songs[:limit] whose song maps to an entry.
Mappable(req) ==
    {idx \in 1..Len(req.feed.songs) : idx <= req.limit /\ req.feed.songs[idx]}

\* C20: the feed adapter does not raise; it returns the empty list on a
\* transport failure, on a status other than success and on a response that
\* does not parse; and a song that fails to map is left out alone: the
\* result holds, in order, one entry for every other song of songs[:limit].
C20_AdapterNeverRaises ==
    last.op = "adapter" =>
        LET feed == last.req.feed
            entries == last.body.entries
        IN  /\ ~last.body.raised
            /\ feed.outcome \in FeedFailures => entries = <<>>
            /\ feed.outcome = "ok" =>
                /\ {entries[i].rank : i \in 1..Len(entries)} = Mappable(last.req)
                /\ Len(entries) = Cardinality(Mappable(last.req))
                /\ \A i, j \in 1..Len(entries) : i < j => entries[i].rank < entries[j].rank

\* The adapter was given a feed whose first song fails to map and whose
\* second maps, and returned the entry of the second alone.
C20_Witness ==
    /\ last.op = "adapter" /\ last.req.feed.outcome = "ok"
    /\ last.req.feed.songs = <<FALSE, TRUE>> /\ last.req.limit = FeedLimit
    /\ Len(last.body.entries) = 1


---------------------------------------------------------------------------
(* WebSocket *)

\* The token of a connection decoded, at the time of the request, to a
\* payload of type access.
AccessTokenOf(c) ==
    /\ conn[c].token.sig = Sign(conn[c].token.payload, SECRET_KEY)
    /\ "exp" \in DOMAIN conn[c].token.payload
    /\ conn[c].token.payload.exp >= conn[c].at
    /\ "type" \in DOMAIN conn[c].token.payload
    /\ conn[c].token.payload.type = "access"

\* The events a handler owes for the texts it received: connected, then one
\* echo for each text, in order.
Owed(received) ==
    <<Connected>> \o [i \in 1..Len(received) |-> Echo(received[i])]

\* C17: a connection whose token does not decode, or is not of type access
\* (a valid refresh token included), is closed with code 1008, is never
\* accepted and never enters the registry; any other is accepted and not
\* closed, is sent one connected event before anything else, and then one
\* echo event for each text received, carrying the text, in the order of
\* receipt.
C17_WebSocketGateAndEcho ==
    \A c \in Connections :
        conn[c].pc # "new" =>
            IF ~AccessTokenOf(c)
            THEN /\ conn[c].close_code = 1008
                 /\ ~conn[c].accepted
                 /\ conn[c].sent = <<>>
                 /\ \A i \in 1..Len(active_connections) : active_connections[i] # c
            ELSE /\ conn[c].accepted
                 /\ conn[c].close_code = NotClosed
                 /\ \E n \in 0..Len(Owed(conn[c].received)) :
                        conn[c].sent = SubSeq(Owed(conn[c].received), 1, n)
                 /\ conn[c].pc = "listen" => conn[c].sent = Owed(conn[c].received)
                 /\ conn[c].pc = "echo" =>
                        Len(conn[c].sent) = Len(conn[c].received)

\* One connection presented a valid refresh token and was closed with 1008;
\* the other was accepted and has been sent connected and the echoes of two
\* different texts.
C17_Witness ==
    \E c, d \in Connections :
        /\ conn[c].pc = "ended" /\ conn[c].close_code = 1008
        /\ conn[c].token = create_tokens(WsUser, 0).refresh_token
        /\ conn[d].pc = "listen" /\ Len(conn[d].received) = 2
        /\ conn[d].received[1] # conn[d].received[2]
        /\ conn[d].sent = Owed(conn[d].received)


---------------------------------------------------------------------------
(* Back-fill *)

\* The days of a back-fill of days_back days: today and the days before.
BackFillDays(days_back) == {Today - k : k \in 0..days_back}

\* A document is the copy of a fetched entry for a day.
CopyOf(doc, entry, day) ==
    /\ FromIsoFormat(doc.date) = day
    /\ doc.rank = entry.rank /\ doc.song = entry.song /\ doc.artist = entry.artist
    /\ doc.source = entry.source /\ doc.country = entry.country

\* The copies a back-fill submits that no stored entry has the identity of.
Fresh(coll, ranking, days_back) ==
    {p \in BackFillDays(days_back) \X (1..Len(ranking)) :
        ~\E doc \in coll :
            Identity(doc) = <<IsoFormat(p[1]), ranking[p[2]].rank,
                              ranking[p[2]].source, ranking[p[2]].country>>}

\* C21: a back-fill of N > 0 days submits the fetched ranking once for each
\* of the days today, today - 1, ..., today - N and for no other date, each
\* copy with the rank, song, artist, source and country of the fetched
\* entry: the documents added are one copy for each day and fetched entry
\* that no stored entry has the identity of, and imported is their number.
\* So on a store without entries of those days imported is
\* fetched * (N + 1), and a second run at once imports 0.
C21_BackFillCoversEachDayOnce ==
    [][SyncStep /\ last'.op = "fetch_itunes" /\ last'.status = HTTP_201
            /\ last'.req.days_back > 0 =>
        LET N == last'.req.days_back
            ranking == last'.req.ranking
            fresh == Fresh(store, ranking, N)
            added == store' \ store
        IN  /\ store \subseteq store'
            /\ \A doc \in added :
                    \E p \in fresh : CopyOf(doc, ranking[p[2]], p[1])
            /\ \A p \in fresh :
                    Cardinality({doc \in added : CopyOf(doc, ranking[p[2]], p[1])}) = 1
            /\ Cardinality(added) = Cardinality(fresh)
            /\ last'.body.imported = Cardinality(fresh)
            /\ last'.body.fetched = Len(ranking)
            /\ (\A doc \in store : FromIsoFormat(doc.date) \notin BackFillDays(N))
                    => last'.body.imported = Len(ranking) * (N + 1)
            /\ Fresh(store', ranking, N) = {}]_vars

\* A back-fill into an empty store imported one copy for each day, and the
\* same back-fill run again imported nothing.
C21_Witness ==
    /\ last.op = "fetch_itunes" /\ last.status = HTTP_201
    /\ last.req.days_back = MaxDaysBack /\ last.req.fetched = 1
    /\ last.body.imported = 0 /\ last.body.skipped = MaxDaysBack + 1
    /\ Cardinality(store) = MaxDaysBack + 1
    /\ \A doc \in store : CopyOf(doc, last.req.ranking[1], FromIsoFormat(doc.date))


---------------------------------------------------------------------------
(* Ranks *)

\* C22: every stored entry has a rank of 1 or more, whatever creates,
\* updates and syncs came before, so the ranks of an artist's group in a
\* trend analysis never sum (or average) to 0 or less.
C22_RanksPositive ==
    /\ \A doc \in store : doc.rank >= 1
    /\ last.op = "trends" =>
            \A i \in 1..Len(last.body.trends) : last.body.trends[i].rank_sum > 0


---------------------------------------------------------------------------
(* Uniform failures *)

\* What a client sees of a failure.
Seen(out) == <<out.status, out.detail>>

\* The token has a good signature and an expiry in the past.
Expired(token) ==
    /\ token.sig = Sign(token.payload, SECRET_KEY)
    /\ "exp" \in DOMAIN token.payload /\ token.payload.exp < now

\* The token decodes to a refresh token that names an inactive user.
NamesInactive(token) ==
    /\ decode_token(token, now).valid
    /\ Get(token.payload, "type") = "refresh"
    /\ \E u \in users : u.username = Get(token.payload, "sub") /\ ~u.is_active

\* C23: a failed refresh shows the client the same status and detail whatever
\* made it fail (a malformed token, a bad signature, an expired token, a
\* token of the wrong type, one that names no user or an inactive user), in
\* this request as in the last failed one; and a login shows the same error
\* for an unknown username and for a wrong password.
C23_FailureCauseHidden ==
    LET malformed == refresh_access_token(MalformedToken, users, now)
    IN  /\ malformed.status = HTTP_401
        /\ \A token \in Presentable :
                LET out == refresh_access_token(token, users, now)
                IN  out.status # HTTP_200 =>
                        Seen(out) = Seen(malformed) /\ out.user = NoBody
        /\ (authLast.op = "refresh" /\ authLast.status # HTTP_200) =>
                <<authLast.status, authLast.detail>> = Seen(malformed)
        /\ \A username \in Usernames \cup {"carol"}, password \in Passwords :
                LET out == authenticate_user(users,
                                [username |-> username, password |-> password], now)
                    unknown == authenticate_user(users,
                                [username |-> "carol", password |-> password], now)
                IN  (\A u \in users : u.username = username =>
                            ~verify_password(password, u.hashed_password))
                        => Seen(out) = Seen(unknown) /\ out.rows = users

\* A refresh with an expired token of a good signature has failed as
\* InvalidToken, while a client also holds an unexpired access token, a
\* refresh token of an inactive user and a token with an altered payload.
C23_Witness ==
    /\ authLast.op = "refresh" /\ InvalidToken(authLast)
    /\ Expired(authLast.req)
    /\ \E token \in Presentable : NamesInactive(token)
    /\ \E token \in Presentable :
            decode_token(token, now).valid /\ Get(token.payload, "type") = "access"
    /\ \E token \in Presentable : token.sig # Sign(token.payload, SECRET_KEY)
    /\ users # {}


---------------------------------------------------------------------------
(* Extension fields across create and update *)

\* Where a stored entry holds an extension key, and the values it holds.
Places(doc, k) ==
    (IF k \in DOMAIN doc THEN {"entry"} ELSE {})
        \cup (IF k \in DOMAIN Nested(doc) THEN {"platform_data"} ELSE {})
Held(doc, k) ==
    (IF k \in DOMAIN doc THEN {doc[k]} ELSE {})
        \cup (IF k \in DOMAIN Nested(doc) THEN {Nested(doc)[k]} ELSE {})

\* C24: extension fields merge key by key across create and update: after
\* an update that supplies a value for an extension key, the entry holds
\* that value for the key and no other, in one place, whether the key was
\* first supplied at creation or by an earlier update.
C24_ExtensionKeysMergeAcrossCreateAndUpdate ==
    [][UpdateStep /\ last'.status = HTTP_200 =>
        LET items == last'.req.update.platform_data.items
        IN  \A new \in store' :
                new["_id"] = last'.req.entry_id =>
                    \A k \in DOMAIN items :
                        /\ Held(new, k) = {items[k]}
                        /\ Cardinality(Places(new, k)) = 1]_vars


---------------------------------------------------------------------------
(* Connection registry *)

\* The connections manager.connect has registered and whose handler has not
\* ended, and those whose handler has ended or was never accepted.
Live == {c \in Connections : conn[c].pc \in {"welcome", "listen", "echo"}}
Gone == {c \in Connections : conn[c].pc = "ended" \/ ~conn[c].accepted}

\* C25: the registry holds exactly the accepted connections whose handler
\* has not ended: each connection registered on accept is in it once while
\* its handler runs, and none is in it that was never accepted or whose
\* handler has ended, on a client disconnect or on another failure of a
\* send or receive.
C25_RegistryIsTheLiveConnections ==
    /\ \A c \in Live :
            Cardinality({i \in 1..Len(active_connections) : active_connections[i] = c}) = 1
    /\ \A c \in Gone :
            \A i \in 1..Len(active_connections) : active_connections[i] # c


---------------------------------------------------------------------------
(* Ranks of the fetched entries *)

\* C26: the entries the feed adapter returns carry today's date and the
\* ranks 1, 2, ..., n in feed order, n being their number and at most the
\* limit, also when songs of the feed were skipped because they failed to
\* map.
C26_FetchedRanksSequential ==
    last.op = "adapter" =>
        /\ Len(last.body.entries) <= last.req.limit
        /\ \A i \in 1..Len(last.body.entries) :
                /\ last.body.entries[i].date = Today
                /\ last.body.entries[i].rank = i


---------------------------------------------------------------------------
(* Duplicates under batch import *)

\* No two stored entries have the same (date, rank, source, country).
NoTwoAlike(coll) ==
    \A a, b \in coll : a # b => Identity(a) # Identity(b)

\* C27: a batch import with validate_duplicates, into a store no two
\* entries of which have the same (date, rank, source, country), leaves a
\* store of which that is still true, also when the batch itself holds two
\* entries with the same tuple.
C27_BatchKeepsTuplesUnique ==
    [][(last'.op = "batch" /\ last'.req.validate_duplicates /\ NoTwoAlike(store))
            => NoTwoAlike(store')]_vars


---------------------------------------------------------------------------
(* Accounting of a batch import *)

\* C28: the result of a batch import accounts for every submitted entry
\* once: imported + skipped is the number submitted, imported is the number
\* of entries the call added to the store, and skipped covers every message
\* of errors; also when the bulk insert fails after a part of the documents
\* is in.
C28_BatchResultAccountsForEveryEntry ==
    [][(last'.op = "batch" /\ last'.status = HTTP_201) =>
            /\ last'.body.imported + last'.body.skipped = last'.req.size
            /\ store \subseteq store'
            /\ last'.body.imported = Cardinality(store' \ store)
            /\ Len(last'.body.errors) <= last'.body.skipped]_vars


---------------------------------------------------------------------------
(* Broadcast *)

Registered(list) == {list[i] : i \in 1..Len(list)}
SendsTo(c) == Cardinality({i \in 1..Len(bcast'.attempted) : bcast'.attempted[i] = c})

\* C29: a broadcast tries one send, and only one, to every connection that
\* is in the registry from the start of the broadcast to its end, whatever
\* connects or disconnects while it waits for a send; and no step of the
\* broadcast changes the registry.
C29_BroadcastReachesEveryRegistered ==
    [][/\ bcast' # bcast => active_connections' = active_connections
       /\ (bcast.pc # "done" /\ bcast'.pc = "done") =>
            \A c \in Registered(bcast'.start) \cap Registered(active_connections') :
                SendsTo(c) = 1]_vars


---------------------------------------------------------------------------
(* Document-store handle *)

\* C30: at most one client is created between two closes, and the database
\* handle get_mongodb_db returns belongs to the current client, which is
\* open; a call after close_mongodb_connection does not return a handle of
\* the closed client.
C30_DbHandleOfTheOpenClient ==
    [][/\ mongo'.since_close <= 1
       /\ mongo'.ret.op = "db" =>
            /\ mongo'.ret.value = mongo'.client
            /\ mongo'.ret.value \in mongo'.open]_vars

====
